---- MODULE Spec2Model ----
(***************************************************************************)
(* Overlay runtime of the document library (src-tauri/src/core/p2p/mod.rs):*)
(* the event loop spawned by start_runtime, its command queue, the swarm   *)
(* events it handles, its 50 ms ticker and its announce ticker.            *)
(*                                                                         *)
(* Strings are sequences of one-character strings, so that formatting,     *)
(* parsing, lower-casing and substring search are computed.  Option<T> is  *)
(* a sequence of length 0 (None) or 1 (Some).  A file's bytes are a        *)
(* sequence of ranges [src, off, len]: bytes off .. off+len-1 of the       *)
(* content that hash src identifies.                                       *)
(***************************************************************************)
EXTENDS Integers, Sequences, FiniteSets, TLC

(***************************************************************************)
(* Bounds of the model.                                                    *)
(***************************************************************************)
\* commands waiting in the mpsc queue (the code's capacity is 64)
MaxQueue == 1
\* commands carrying a reply channel that callers submit in one run
MaxReplyCmds == 2
\* Fetch commands callers submit in one run of the fetch model
MaxFetches == 3
\* Search commands callers submit in one run of the search model
MaxSearches == 2
\* search responses carrying its id that one search receives
MaxResults == 2
\* record and peer-address commands callers submit in one run of the record model
MaxRecordCmds == 3
\* the dials recorded
MaxDials == 3
\* event-loop tasks spawned in one run
MaxTasks == 2
\* calls of the manager and the facade that one thread makes and sees return
MaxCalls == 3
\* connections to one peer that are established at one time
MaxConns == 2
\* commands waiting in the mpsc queue in the model of the facade
MaxBacklog == 2
\* facade commands that one thread calls in the model of the facade
MaxFacadeCalls == 2
\* reply-carrying commands sent when callers may drop their receivers
MaxAbandonCmds == 4

(***************************************************************************)
(* Program constants.                                                      *)
(***************************************************************************)
CHUNK_SIZE == 64 * 1024
\* period of `ticker`, in ms
TICK_MS == 50
\* the search window the ticker closes, in ms
SEARCH_WINDOW_MS == 200
\* granularity at which time passes between two ticks, in ms
TimeStep == 25

(***************************************************************************)
(* Option                                                                  *)
(***************************************************************************)
None == <<>>
Some(x) == <<x>>
IsSome(o) == o /= <<>>
Unwrap(o) == o[1]

Min(a, b) == IF a <= b THEN a ELSE b

(***************************************************************************)
(* Strings                                                                 *)
(***************************************************************************)
ToLowerChar(c) ==
    CASE c = "A" -> "a" [] c = "B" -> "b" [] c = "C" -> "c" [] c = "D" -> "d"
      [] c = "E" -> "e" [] c = "Z" -> "z" [] OTHER -> c

to_lowercase(s) == [i \in 1..Len(s) |-> ToLowerChar(s[i])]

\* str::contains(pat): pat occurs in s as a contiguous substring
contains(s, pat) ==
    \E i \in 0..(Len(s) - Len(pat)) : SubSeq(s, i + 1, i + Len(pat)) = pat

starts_with(s, pre) == Len(pre) <= Len(s) /\ SubSeq(s, 1, Len(pre)) = pre

\* str::strip_prefix: Some(rest) or None
strip_prefix(s, pre) ==
    IF starts_with(s, pre) THEN Some(SubSeq(s, Len(pre) + 1, Len(s))) ELSE None

\* position of the first occurrence of character sep in s, 0 when there is none
FirstIndex(s, sep) ==
    IF \E i \in 1..Len(s) : s[i] = sep
    THEN CHOOSE i \in 1..Len(s) : s[i] = sep /\ \A j \in 1..(i - 1) : s[j] /= sep
    ELSE 0

\* str::splitn(n, sep): at most n parts, the last one holding the remainder
RECURSIVE splitn(_, _, _)
splitn(n, sep, s) ==
    IF n = 0 THEN <<>>
    ELSE IF n = 1 \/ FirstIndex(s, sep) = 0 THEN <<s>>
    ELSE LET i == FirstIndex(s, sep)
         IN  <<SubSeq(s, 1, i - 1)>> \o splitn(n - 1, sep, SubSeq(s, i + 1, Len(s)))

\* Path::file_name().and_then(to_str).unwrap_or(""): the last component of
\* the path; "" when the path has no component or ends in ".."
RECURSIVE file_name(_)
file_name(path) ==
    IF path = <<>> THEN <<>>
    ELSE IF path[Len(path)] = "/" THEN file_name(SubSeq(path, 1, Len(path) - 1))
    ELSE LET slashes == {i \in 1..Len(path) : path[i] = "/"}
             last == IF slashes = {} THEN 0
                     ELSE CHOOSE i \in slashes : \A j \in slashes : j <= i
             name == SubSeq(path, last + 1, Len(path))
         IN  IF name = <<".", ".">> THEN <<>> ELSE name

(***************************************************************************)
(* Multiaddrs.  The text of an address is written with one element for     *)
(* each '/' and one for each component between two of them.                *)
(***************************************************************************)
\* the protocols that take an argument, and those that take none
ArgProtocols == {"ip4", "ip6", "dns", "dns4", "dns6", "dnsaddr", "tcp", "p2p"}
NoArgProtocols == {"ws"}

\* the arguments that parse: IPv4 and IPv6 literals, u16 ports, peer ids
Ip4Literals == {"10.0.0.7", "127.0.0.1"}
Ip6Literals == {"fd00::7"}
PortLiterals == {"443", "9", "1"}
PeerIdLiterals == {"n", "p1", "p2"}

ArgParses(name, arg) ==
    CASE name = "ip4" -> arg \in Ip4Literals
      [] name = "ip6" -> arg \in Ip6Literals
      [] name = "tcp" -> arg \in PortLiterals
      [] name = "p2p" -> arg \in PeerIdLiterals
      [] OTHER -> arg /= "" /\ arg /= "/"

\* text.parse::<Multiaddr>(): Some(the protocols) or None for an error.  The
\* text splits at '/'; the first part must be empty and the rest are protocol
\* names, each followed by its argument; the empty text is the empty address.
RECURSIVE ParseMultiaddr(_)
ParseMultiaddr(s) ==
    IF s = <<>> THEN Some(<<>>)
    ELSE IF s[1] /= "/" \/ Len(s) < 2 THEN None
    ELSE IF s[2] \in NoArgProtocols
    THEN LET rest == ParseMultiaddr(SubSeq(s, 3, Len(s)))
         IN  IF IsSome(rest)
             THEN Some(<<[proto |-> s[2], arg |-> ""]>> \o Unwrap(rest))
             ELSE None
    ELSE IF s[2] \in ArgProtocols /\ Len(s) >= 4 /\ s[3] = "/" /\ ArgParses(s[2], s[4])
    THEN LET rest == ParseMultiaddr(SubSeq(s, 5, Len(s)))
         IN  IF IsSome(rest)
             THEN Some(<<[proto |-> s[2], arg |-> s[4]]>> \o Unwrap(rest))
             ELSE None
    ELSE None

IsMultiaddr(s) == IsSome(ParseMultiaddr(s))

\* format!("/dnsaddr/{}/tcp/{}/ws", onion, port)
onion_bootstrap_addr(onion, port) ==
    <<"/", "dnsaddr", "/">> \o onion \o <<"/", "tcp", "/", port, "/", "ws">>

\* the address of a bootstrap node on the overlay
OnionMa == onion_bootstrap_addr(<<"b.onion">>, "443")

\* the TCP transport's reading of an address, from its end: a /p2p suffix is
\* skipped, then a tcp port and an IP host must follow; anything else, such
\* as /ws or a DNS name, is an address it does not support
RECURSIVE multiaddr_to_socketaddr(_, _)
multiaddr_to_socketaddr(addr, port) ==
    IF addr = <<>> THEN None
    ELSE LET p == addr[Len(addr)]
             rest == SubSeq(addr, 1, Len(addr) - 1)
         IN  CASE p.proto \in {"ip4", "ip6"} ->
                    IF IsSome(port) THEN Some([host |-> p.arg, port |-> Unwrap(port)])
                    ELSE None
               [] p.proto = "tcp" ->
                    IF IsSome(port) THEN None
                    ELSE multiaddr_to_socketaddr(rest, Some(p.arg))
               [] p.proto = "p2p" -> multiaddr_to_socketaddr(rest, port)
               [] OTHER -> None

\* the last value of a sequence of Options that is Some, or None
RECURSIVE LastSome(_)
LastSome(opts) ==
    IF opts = <<>> THEN None
    ELSE IF IsSome(opts[Len(opts)]) THEN opts[Len(opts)]
    ELSE LastSome(SubSeq(opts, 1, Len(opts) - 1))

\* the components that give SocksProxyTransport::dial a host
HostProtocols == {"dnsaddr", "dns4", "dns6", "dns", "ip4", "ip6"}

\* the last host and the last tcp port of an address, each an Option
LastHost(addr) ==
    LastSome([i \in 1..Len(addr) |->
                IF addr[i].proto \in HostProtocols THEN Some(addr[i].arg) ELSE None])

LastPort(addr) ==
    LastSome([i \in 1..Len(addr) |->
                IF addr[i].proto = "tcp" THEN Some(addr[i].arg) ELSE None])

\* a variant of SocksDial that dials port 443 when the address has no port
SocksDialDefaultPort(addr) ==
    IF LastHost(addr) = None
    THEN [via |-> "none", kind |-> "InvalidInput", error |-> "missing host in multiaddr"]
    ELSE [via |-> "socks", host |-> Unwrap(LastHost(addr)),
          port |-> IF LastPort(addr) = None THEN "443" ELSE Unwrap(LastPort(addr))]

\* SocksProxyTransport::dial: the host is the last DNS or IP component, the
\* port the last tcp component; without either the dial is refused at once
\* with an io::Error of kind InvalidInput, else a future is returned
SocksDial(addr) ==
    IF LastHost(addr) = None
    THEN [via |-> "none", kind |-> "InvalidInput", error |-> "missing host in multiaddr"]
    ELSE IF LastPort(addr) = None
    THEN [via |-> "none", kind |-> "InvalidInput", error |-> "missing tcp port in multiaddr"]
    ELSE [via |-> "socks", host |-> Unwrap(LastHost(addr)), port |-> Unwrap(LastPort(addr))]

\* what the SOCKS egress does with the future of a dial: the connection to
\* it fails, its answer to CONNECT is a failure, or the stream is opened;
\* each failure with the message of the error underneath
SocksEgress ==
    { [step |-> "proxy", error |-> "Connection refused (os error 111)"],
      [step |-> "connect", error |-> "Host unreachable"],
      [step |-> "ok", error |-> ""] }

\* the future that SocksProxyTransport::dial returns, run against egress e:
\* the stream to (host, port), or an io::Error of kind Other
SocksFuture(route, e) ==
    IF e.step = "proxy"
    THEN [ok |-> FALSE, kind |-> "Other",
          message |-> <<"SOCKS proxy connection failed: ", e.error>>]
    ELSE IF e.step = "connect"
    THEN [ok |-> FALSE, kind |-> "Other",
          message |-> <<"SOCKS CONNECT failed: ", e.error>>]
    ELSE [ok |-> TRUE, stream |-> <<route.host, route.port>>]

\* OrTransport::new(listen_transport, dial_transport).dial(addr): the TCP
\* transport is asked first, and the SOCKS transport only for an address
\* that the TCP transport does not support
OrTransportDial(addr) ==
    LET sa == multiaddr_to_socketaddr(addr, None)
    IN  IF IsSome(sa)
        THEN [via |-> "tcp", host |-> Unwrap(sa).host, port |-> Unwrap(sa).port]
        ELSE SocksDial(addr)

(***************************************************************************)
(* Files                                                                   *)
(***************************************************************************)
RECURSIVE FileLen(_)
FileLen(f) == IF f = <<>> THEN 0 ELSE Head(f).len + FileLen(Tail(f))

\* seek(off) then read(buf) with a buffer of n bytes: the bytes of f in
\* [off, off + n), fewer at the end of the file, none at or past it
RECURSIVE ReadAt(_, _, _)
ReadAt(f, off, n) ==
    IF f = <<>> \/ n = 0 THEN <<>>
    ELSE LET r == Head(f)
         IN  IF off >= r.len THEN ReadAt(Tail(f), off - r.len, n)
             ELSE LET take == Min(n, r.len - off)
                  IN  <<[src |-> r.src, off |-> r.off + off, len |-> take]>>
                        \o ReadAt(Tail(f), 0, n - take)

\* write_all(data) through a handle whose cursor is at pos: a cursor past
\* the end of the file leaves a hole of zero bytes
WriteAt(f, pos, data) ==
    LET hole == IF pos > FileLen(f)
                THEN <<[src |-> <<"0">>, off |-> 0, len |-> pos - FileLen(f)]>>
                ELSE <<>>
        end  == pos + FileLen(data)
    IN  ReadAt(f, 0, pos) \o hole \o data \o ReadAt(f, end, FileLen(f) - Min(end, FileLen(f)))

\* the same bytes with adjacent ranges of one content merged
RECURSIVE Normalize(_)
Normalize(f) ==
    IF Len(f) <= 1 THEN f
    ELSE LET a == f[1]
             b == f[2]
         IN  IF a.src = b.src /\ a.off + a.len = b.off
             THEN Normalize(<<[src |-> a.src, off |-> a.off, len |-> a.len + b.len]>>
                              \o SubSeq(f, 3, Len(f)))
             ELSE <<a>> \o Normalize(Tail(f))

(***************************************************************************)
(* Chunk requests: bincode of (String, u64) is the string's length as 8    *)
(* little-endian bytes, its bytes, and the offset as 8 little-endian bytes *)
(***************************************************************************)
\* the n low-order bytes of v, least significant first
RECURSIVE LEBytes(_, _)
LEBytes(v, n) == IF n = 0 THEN <<>> ELSE <<v % 256>> \o LEBytes(v \div 256, n - 1)

U64LE(v) == LEBytes(v, 8)

RECURSIVE FromLE(_)
FromLE(b) == IF b = <<>> THEN 0 ELSE Head(b) + 256 * FromLE(Tail(b))

build_chunk_request(hash, offset) == U64LE(Len(hash)) \o hash \o U64LE(offset)

\* Some(<<hash, offset>>), or None when the buffer is not such an encoding;
\* the offset is kept as its 8 little-endian bytes, a u64
parse_chunk_request(buf) ==
    IF Len(buf) < 8 THEN None
    ELSE LET n == FromLE(SubSeq(buf, 1, 8))
         IN  IF Len(buf) < 8 + n + 8 THEN None
             ELSE Some(<<SubSeq(buf, 9, 8 + n), SubSeq(buf, 9 + n, 16 + n)>>)

\* let _ = file.seek(SeekFrom::Start(offset)) on a file just opened: the
\* cursor afterwards.  An offset above i64::MAX makes the seek fail, the
\* failure is discarded and the cursor stays at 0
seek(offset) == IF offset[8] >= 128 THEN 0 ELSE FromLE(offset)

(***************************************************************************)
(* The data of the model: hashes, contents, remote peers, caller inputs    *)
(***************************************************************************)
H1 == <<"h", "1">>
H2 == <<"h", "2">>
Hashes == {H1, H2}

\* the length of the content each hash identifies: three full chunks and a
\* partial one, and exactly one chunk
ContentSize(h) == IF h = H1 THEN 3 * CHUNK_SIZE + 3392 ELSE CHUNK_SIZE

\* the complete bytes of the content that h identifies
ContentBytes(h) ==
    IF ContentSize(h) = 0 THEN <<>> ELSE <<[src |-> h, off |-> 0, len |-> ContentSize(h)]>>

IndexedContent(path, title, author, tags) ==
    [path |-> path, title |-> title, author |-> author, tags |-> tags]

DiscoveredPrefix == <<"d", "i", "s", "c", "o", "v", "e", "r", "e", "d", ":">>

Peers == {"p1", "p2"}

SrcH1 == <<"/", "s", "/", "1">>
SrcH2 == <<"/", "s", "/", "2">>

\* What the remote peers run serve-fetch on.  p1 hosts both contents; p2
\* hosts none and knows H1 only from a CONTENT announcement it received.
PeerIndex(p) ==
    IF p = "p1"
    THEN (H1 :> IndexedContent(SrcH1, <<"A", "l">>, None, <<>>))
           @@ (H2 :> IndexedContent(SrcH2, <<"B", "e">>, None, <<>>))
    ELSE (H1 :> IndexedContent(DiscoveredPrefix \o H1, <<"A", "l">>, Some(<<"C", "a">>), <<<<>>>>))

PeerFiles(p) ==
    IF p = "p1" THEN (SrcH1 :> ContentBytes(H1)) @@ (SrcH2 :> ContentBytes(H2))
    ELSE [x \in {} |-> <<>>]

\* output paths callers pass to Fetch: one in a directory that exists, one
\* in a directory that does not
OutA == <<"/", "o", "/", "a">>
OutBad == <<"/", "x", "/", "b">>
OutPaths == {OutA, OutBad}
ExistingDir == <<"/", "o", "/">>

\* OpenOptions::new().create(true).truncate(true).write(true).open(path)
CanCreate(path) == starts_with(path, ExistingDir)

\* what callers pass to UpdateIndex
IndexInputs ==
    { [hash |-> H1, path |-> SrcH1, title |-> <<"A", "l">>, author |-> None, tags |-> <<>>],
      [hash |-> H2, path |-> <<"/", "s", "/", "B", "e">>, title |-> <<>>,
       author |-> Some(<<"C", "a">>), tags |-> << <<"D", "o">> >>] }

Queries == { <<"a">>, <<"E">>, <<"d", "O">> }

Digits == <<"1", "2", "3", "4", "5", "6", "7", "8", "9">>

\* uuid::Uuid::new_v4().to_string(): a fresh string for each search; n is
\* the number of the command that starts it
Uuid(n) == <<"u", Digits[n]>>

\* the address of the hidden service, the listen port and the local peer id
onion_addr == <<"x", ".", "o", "n", "i", "o", "n">>
listen_port == <<"1">>
local_peer_id == <<"n">>

\* format!("/dnsaddr/{}/tcp/{}/ws/p2p/{}", onion_addr, listen_port, local_peer_id)
peer_announce ==
    IF onion_addr /= <<>>
    THEN <<"/", "d", "n", "s", "a", "d", "d", "r", "/">> \o onion_addr
           \o <<"/", "t", "c", "p", "/">> \o listen_port
           \o <<"/", "w", "s", "/", "p", "2", "p", "/">> \o local_peer_id
    ELSE <<>>

\* Ok(v) and Err(msg); the debug text of the underlying error that some
\* messages end with is left out
OkVal(v) == [ok |-> TRUE, val |-> v]
ErrVal(msg) == [ok |-> FALSE, val |-> <<msg>>]

(***************************************************************************)
(* State                                                                   *)
(***************************************************************************)
VARIABLES
    queue,                \* the mpsc channel: commands sent and not yet received
    cmds,                 \* cmds[c]: the command that carries reply channel c
    replies,              \* replies[c]: the values sent on reply channel c, in order
    dropped,              \* reply channels whose sender was dropped without a send
    content_index,        \* hash -> IndexedContent
    connected,            \* HashSet<PeerId>
    current_fetch,        \* Option<PendingFile>
    current_search,       \* Option<(id, started, reply, results)>
    pending_put_records,  \* QueryId -> reply channel
    pending_get_records,  \* QueryId -> reply channel
    pending_bootstrap,    \* QueryId -> reply channel
    files,                \* the local file system: path -> bytes
    rr_pending,           \* chunk requests sent and neither answered nor failed
    kad_running,          \* the Kademlia queries of commands that have not finished
    kad_store,            \* the node's Kademlia record store: key -> record
    outbox,               \* what the step just taken handed to
                          \* gossipsub.publish: (topic, text)
    get_after_put,        \* history: GetRecord channel -> the values put under its key
                          \* and answered Ok before the GetRecord was dequeued
    phase,                \* ms since the last tick of `ticker`
    published,            \* history: hash -> the entry the last UpdateIndex for it gave
    fetch_hist,           \* history of the fetch that entered the slot last
    search_hist,          \* history of the search that entered the slot last
    dialed,               \* history: the dials handed to the transport, each with
                          \* the statement that made it and the route it took
    conns,                \* the swarm's connections: peer -> how many are
                          \* established and not closed
    served,               \* history: the last inbound chunk request and what
                          \* was handed to send_response for it
    closed_rx,            \* the reply channels whose receiver the caller dropped
    mgr_hist,             \* history of the last manager call, kept in the
                          \* behaviours that begin with a history (None in the
                          \* others): the call, what it was given and what the
                          \* daemon's control port answered it
    TOR_RUNTIME,          \* the anonymity manager's cell: None or Some(TorRuntime)
    daemons,              \* the daemon processes spawned and not killed
    progress,             \* the bootstrap progress of the spawned daemon, in
                          \* percent (0 when there is none)
    at,                   \* thread -> where it is: "idle", or the lock() it is in
                          \* and does not return from
    ret,                  \* thread -> the last return of a manager or facade call:
                          \* the operation, the value, and how many calls returned
    tasks,                \* the event-loop tasks spawned (none ever ends)
    P2P_TX,               \* the facade's cell: None or Some(the sender of a task)
    RUNTIME,              \* the facade's cell: None or Some(Runtime)
    call,                 \* thread -> the locals of the facade command it is in
    locks                 \* the facade's mutexes: name -> the thread holding a
                          \* guard of it

vars == <<queue, cmds, replies, dropped, content_index, connected, current_fetch,
          current_search, pending_put_records, pending_get_records,
          pending_bootstrap, files, rr_pending, kad_running, kad_store,
          get_after_put, outbox, phase,
          published, fetch_hist, search_hist, dialed, conns, served, closed_rx, mgr_hist,
          TOR_RUNTIME, daemons, progress, at, ret, tasks, P2P_TX, RUNTIME,
          call, locks>>

kadQueries == <<pending_put_records, pending_get_records, pending_bootstrap, kad_running>>
kadVars == <<kadQueries, kad_store, get_after_put>>
fetchVars == <<current_fetch, files, rr_pending, fetch_hist>>
searchVars == <<current_search, search_hist>>
indexVars == <<content_index, published>>
chanVars == <<replies, dropped>>
loopVars == <<queue, cmds, chanVars, indexVars, connected, searchVars, fetchVars,
              kadVars, outbox, phase>>
remoteVars == <<served, closed_rx, mgr_hist>>
netVars == <<dialed, conns, remoteVars>>
torVars == <<TOR_RUNTIME, daemons, progress, at, ret>>
facadeVars == <<tasks, P2P_TX, RUNTIME, call, locks>>
hostVars == <<netVars, torVars, facadeVars>>

EmptyMap == [x \in {} |-> <<>>]

Insert(m, k, v) == [x \in DOMAIN m \cup {k} |-> IF x = k THEN v ELSE m[x]]

Remove(m, k) == [x \in DOMAIN m \ {k} |-> m[x]]

\* the history of a fetch: the channel of its command, the requests its
\* handlers sent, the length of each response applied to it, and whether
\* it ran undisturbed: the slot was free and no request was outstanding when
\* it started, and no other Fetch opened an output file since
FetchHist(chan, sent, got, undisturbed) ==
    [chan |-> chan, sent |-> sent, got |-> got, undisturbed |-> undisturbed]

\* the history of a search: the channel of its command, the local matches
\* it started with, and the (hash, name) pairs of the R| messages carrying
\* its id that the loop received while it was in flight; and, over the
\* whole run, the number modulo 2 of the R| messages received that carried
\* another id or came while no search was in flight (None in behaviours
\* that do not count them)
SearchHist(chan, local, received, stale) ==
    [chan |-> chan, local |-> local, received |-> received, stale |-> stale]

(***************************************************************************)
(* The anonymity manager (tor_manager.rs): its values and functions.       *)
(* Ports and addresses are texts; "0" is the port that is none.            *)
(***************************************************************************)
\* the threads that call the manager and the facade, and the event loop's
Threads == {"t1", "t2"}
LoopThread == "loop"

TorRuntime(control_port, socks_port, child, hidden_services) ==
    [control_port |-> control_port, socks_port |-> socks_port, child |-> child,
     hidden_services |-> hidden_services]

Status(bootstrapped, circuit_established, bridges_enabled, socks, supports_control) ==
    [bootstrapped |-> bootstrapped, circuit_established |-> circuit_established,
     bridges_enabled |-> bridges_enabled, socks |-> socks,
     supports_control |-> supports_control]

\* a call that returns v, and a call that does not return
Returns(v) == Some(v)
NeverReturns == None

\* format!("127.0.0.1:{}", port)
Loopback(port) == <<"127.0.0.1", ":", port>>

\* StartConfig: bridge_support and socks_override (an address text with one
\* element for each part that ':' separates, and one for each ':')
StartConfigs ==
    { [bridge_support |-> b, socks_override |-> o] :
        b \in BOOLEAN,
        o \in { None, Some(<<"10.0.0.9", ":", "9050">>), Some(<<"proxy">>) } }

\* s.split(':').last().and_then(|p| p.parse::<u16>().ok()).unwrap_or(9150)
OverridePort(s) == IF s[Len(s)] \in PortLiterals \cup {"9050"} THEN s[Len(s)] ELSE "9150"

\* what the daemon's control port answers to a probe: nothing usable (the
\* cookie is missing, the port refuses, a read fails), or a bootstrap
\* progress and the answer to GETCONF UseBridges (None when that fails)
ProgressValues == {0, 4, 5, 99, 100}

Probes ==
    { None }
      \cup { Some([progress |-> p, use_bridges |-> u]) :
                p \in ProgressValues, u \in {None, Some(TRUE), Some(FALSE)} }

\* a probe of a daemon whose bootstrap progress is p gives nothing usable,
\* or that progress
Answers(probe, p) == IF probe = None THEN TRUE ELSE Unwrap(probe).progress = p

\* a variant of probe_bootstrap that takes any non-zero progress for a
\* started daemon
probe_bootstrap_nonzero(probe) ==
    IF probe = None THEN None
    ELSE Some(<<Unwrap(probe).progress > 0, Unwrap(probe).progress >= 100>>)

\* probe_bootstrap: Ok((progress >= 5, progress >= 100)), or None for Err
probe_bootstrap(probe) ==
    IF probe = None THEN None
    ELSE Some(<<Unwrap(probe).progress >= 5, Unwrap(probe).progress >= 100>>)

\* probe_use_bridges(..).unwrap_or(default)
probe_use_bridges(probe, default) ==
    IF probe = None \/ Unwrap(probe).use_bridges = None THEN default
    ELSE Unwrap(Unwrap(probe).use_bridges)

\* the surroundings of a start: whether the data directory can be created,
\* whether a client answers on loopback port 9150, whether torrc can be
\* written, whether the daemon spawns, and what its control port answers
\* once the wait for the cookie is over
StartEnvs ==
    { [data_dir |-> d, port_9150 |-> b, torrc |-> w, spawn |-> c, probe |-> p] :
        d \in BOOLEAN, b \in BOOLEAN, w \in BOOLEAN, c \in BOOLEAN, p \in Probes }

\* the ports pick_free_port() gives the daemon
control_port == "9051"
socks_port == "9050"

\* a variant of start that looks for a client on port 9150 before it looks
\* at the override
start_probing_first(config, env) ==
    IF ~env.data_dir
    THEN [runtime |-> None, probed |-> FALSE, spawned |-> FALSE,
          result |-> ErrVal("create_dir_all")]
    ELSE IF env.port_9150
    THEN [runtime |-> Some(TorRuntime("0", "9150", None, <<>>)),
          probed |-> TRUE,
          spawned |-> FALSE,
          result |-> OkVal(Status(TRUE, TRUE, FALSE, Some(Loopback("9150")), FALSE))]
    ELSE IF IsSome(config.socks_override)
    THEN [runtime |-> Some(TorRuntime("0", OverridePort(Unwrap(config.socks_override)),
                                      None, <<>>)),
          probed |-> TRUE,
          spawned |-> FALSE,
          result |-> OkVal(Status(TRUE, TRUE, FALSE, config.socks_override, FALSE))]
    ELSE [runtime |-> None, probed |-> TRUE, spawned |-> FALSE,
          result |-> ErrVal("write torrc")]

\* start(config) on an empty cell: the runtime it stores (None when it
\* stores none), whether it called can_connect("127.0.0.1", 9150), whether
\* it spawned a daemon, and what it returns
start(config, env) ==
    IF ~env.data_dir
    THEN [runtime |-> None, probed |-> FALSE, spawned |-> FALSE,
          result |-> ErrVal("create_dir_all")]
    ELSE IF IsSome(config.socks_override)
    THEN [runtime |-> Some(TorRuntime("0", OverridePort(Unwrap(config.socks_override)),
                                      None, <<>>)),
          probed |-> FALSE,
          spawned |-> FALSE,
          result |-> OkVal(Status(TRUE, TRUE, FALSE, config.socks_override, FALSE))]
    ELSE IF env.port_9150
    THEN [runtime |-> Some(TorRuntime("0", "9150", None, <<>>)),
          probed |-> TRUE,
          spawned |-> FALSE,
          result |-> OkVal(Status(TRUE, TRUE, FALSE, Some(Loopback("9150")), FALSE))]
    ELSE IF ~env.torrc
    THEN [runtime |-> None, probed |-> TRUE, spawned |-> FALSE,
          result |-> ErrVal("write torrc")]
    ELSE IF ~env.spawn
    THEN [runtime |-> None, probed |-> TRUE, spawned |-> FALSE,
          result |-> ErrVal("failed to spawn tor")]
    ELSE LET state == IF IsSome(probe_bootstrap(env.probe))
                      THEN Unwrap(probe_bootstrap(env.probe))
                      ELSE <<FALSE, FALSE>>
             bridges_enabled == IF state[1]
                                THEN probe_use_bridges(env.probe, config.bridge_support)
                                ELSE config.bridge_support
         IN  [runtime |-> Some(TorRuntime(control_port, socks_port, Some("tor"), <<>>)),
              probed |-> TRUE,
              spawned |-> TRUE,
              result |-> OkVal(Status(state[1], state[2], bridges_enabled,
                                      Some(Loopback(socks_port)), TRUE))]

\* status() with the cell holding rt
status(rt, probe) ==
    IF IsSome(rt)
    THEN IF Unwrap(rt).control_port /= "0"
         THEN IF IsSome(probe_bootstrap(probe))
              THEN Status(Unwrap(probe_bootstrap(probe))[1], Unwrap(probe_bootstrap(probe))[2],
                          probe_use_bridges(probe, FALSE),
                          Some(Loopback(Unwrap(rt).socks_port)), TRUE)
              ELSE Status(FALSE, FALSE, FALSE, Some(Loopback(Unwrap(rt).socks_port)), TRUE)
         ELSE Status(TRUE, TRUE, FALSE, Some(Loopback(Unwrap(rt).socks_port)), FALSE)
    ELSE Status(FALSE, FALSE, FALSE, None, FALSE)

\* what the control port does with create_hidden_service's connection: the
\* cookie cannot be read, the port refuses, AUTHENTICATE is rejected,
\* ADD_ONION is answered without a ServiceID line, or with one
ControlAnswers ==
    { [kind |-> k, sid |-> <<>>] :
        k \in {"no cookie", "refused", "auth rejected", "no ServiceID"} }
      \cup { [kind |-> "ServiceID", sid |-> <<"s">>],
             [kind |-> "ServiceID", sid |-> <<"s", ".onion">>] }

\* if sid.ends_with(".onion") { sid } else { format!("{}.onion", sid) }
WithOnionSuffix(sid) ==
    IF sid /= <<>> /\ sid[Len(sid)] = ".onion" THEN sid ELSE sid \o <<".onion">>

\* a variant of Relock in which the first guard was released: the host is
\* pushed and returned
RelockReleased(onion) == Returns(OkVal(onion))

\* let mut guard = TOR_RUNTIME.lock().unwrap() at the end of
\* create_hidden_service, while the guard taken on entry is still alive
\* (drop(rt) drops the reference, not the guard): the lock is not reentrant
\* and the call does not return
Relock(onion) == NeverReturns

\* create_hidden_service(local_port) with the cell holding rt: an error, or
\* what the lock taken to push the new host gives
create_hidden_service(rt, ctl) ==
    IF rt = None THEN Returns(ErrVal("tor not started"))
    ELSE IF ctl.kind = "no cookie" THEN Returns(ErrVal("read cookie"))
    ELSE IF Unwrap(rt).control_port = "0" \/ ctl.kind = "refused"
    THEN Returns(ErrVal("connect"))
    ELSE IF ctl.kind = "auth rejected" THEN Returns(ErrVal("AUTHENTICATE failed"))
    ELSE IF ctl.kind = "no ServiceID" THEN Returns(ErrVal("missing ServiceID in response"))
    ELSE Relock(WithOnionSuffix(ctl.sid))

\* rt_mut.hidden_services.push(onion)
PushHidden(rt, onion) ==
    IF IsSome(rt)
    THEN Some([Unwrap(rt) EXCEPT !.hidden_services = Append(@, onion)])
    ELSE rt

\* what the control port does with rotate_circuit's connection: the cookie
\* cannot be read, the port refuses, AUTHENTICATE is rejected, the exchange
\* of SIGNAL NEWNYM fails, or it is answered with or without a 250
NewnymAnswers == {"no cookie", "refused", "auth rejected", "io error", "552", "250 OK"}

\* auth_control(): Ok(stream), here TRUE, or Err
auth_control(rt, ctl) ==
    IF rt = None THEN ErrVal("tor not started")
    ELSE IF ctl = "no cookie" THEN ErrVal("read cookie")
    ELSE IF Unwrap(rt).control_port = "0" \/ ctl = "refused" THEN ErrVal("connect")
    ELSE IF ctl = "auth rejected" THEN ErrVal("AUTHENTICATE failed")
    ELSE OkVal(TRUE)

\* rotate_circuit(): whether SIGNAL NEWNYM was answered with a 250
rotate_circuit(rt, ctl) ==
    IF auth_control(rt, ctl).ok THEN ctl = "250 OK" ELSE FALSE

\* the bridge lines enable_bridges is given
BridgeLists == { <<>>, <<"b1">>, <<"b1", "b2">> }

\* what a control command is answered: the exchange fails, or there is a
\* reply without or with a 250
CommandAnswers == {"io error", "552", "250 OK"}

\* what the control port does with enable_bridges' connection: how
\* auth_control goes, what RESETCONF Bridge and SETCONF UseBridges=1 are
\* answered, and what every SETCONF Bridge=.. is answered
BridgeAnswers ==
    { [auth |-> a, resetconf |-> r, use_bridges |-> u, bridge |-> b] :
        a \in {"no cookie", "refused", "auth rejected", "250 OK"},
        r \in CommandAnswers, u \in CommandAnswers, b \in CommandAnswers }

\* enable_bridges(bridges): false when auth_control fails; else the answers
\* to RESETCONF Bridge and SETCONF UseBridges=1 are discarded and the result
\* is whether every SETCONF Bridge=.. was answered with a 250
enable_bridges(rt, ctl, bridges) ==
    IF auth_control(rt, ctl.auth).ok
    THEN \A i \in 1..Len(bridges) : ctl.bridge = "250 OK"
    ELSE FALSE

\* the state of the event loop when it has been spawned
LoopStart(stale) ==
    /\ queue = <<>>
    /\ cmds = <<>>
    /\ replies = <<>>
    /\ dropped = {}
    /\ content_index = EmptyMap
    /\ connected = {}
    /\ current_fetch = None
    /\ current_search = None
    /\ pending_put_records = EmptyMap
    /\ pending_get_records = EmptyMap
    /\ pending_bootstrap = EmptyMap
    /\ files = [p \in {q \in OutPaths : CanCreate(q)} |-> <<>>]
    /\ rr_pending = {}
    /\ kad_running = {}
    /\ kad_store = EmptyMap
    /\ get_after_put = EmptyMap
    /\ outbox = {}
    /\ dialed = {}
    /\ conns = [p \in Peers |-> 0]
    /\ served = None
    /\ closed_rx = {}
    /\ phase = 0
    /\ published = EmptyMap
    /\ fetch_hist = FetchHist(0, <<>>, <<>>, FALSE)
    /\ search_hist = SearchHist(0, <<>>, <<>>, stale)

\* the facade's two mutexes
Locks == {"P2P_TX", "RUNTIME"}

\* Runtime { node_id, socks_proxy, online: true, content_index, metadata_index }
Runtime(socks_addr) ==
    [node_id |-> local_peer_id, socks_proxy |-> Some(socks_addr), online |-> TRUE,
     content_index |-> EmptyMap, metadata_index |-> EmptyMap]

\* the process when it starts: no manager runtime, no event loop, empty cells
HostInit ==
    /\ TOR_RUNTIME = None
    /\ daemons = 0
    /\ progress = 0
    /\ at = [t \in Threads \cup {LoopThread} |-> "idle"]
    /\ ret = [t \in Threads |-> None]
    /\ tasks = {}
    /\ P2P_TX = None
    /\ RUNTIME = None
    /\ call = [t \in Threads |-> None]
    /\ locks = [l \in Locks |-> None]

\* an event loop is running: the manager runs a daemon and the facade has
\* stored the loop's sender
RunningHost ==
    /\ TOR_RUNTIME = Some(TorRuntime(control_port, socks_port, Some("tor"), <<>>))
    /\ daemons = 1
    /\ progress = 100
    /\ at = [t \in Threads \cup {LoopThread} |-> "idle"]
    /\ ret = [t \in Threads |-> None]
    /\ tasks = {1}
    /\ P2P_TX = Some(1)
    /\ RUNTIME = Some(Runtime(Loopback(socks_port)))
    /\ call = [t \in Threads |-> None]
    /\ locks = [l \in Locks |-> None]
    /\ mgr_hist = None

\* the loop's state after construction; no count of unanswered R| messages
\* is kept
LoopInit == LoopStart(None)

Init == LoopInit /\ RunningHost

\* the same, in behaviours that count the R| messages that answer no search
\* in flight
InitStale == LoopStart(Some(0)) /\ RunningHost

\* no event loop has been spawned
InitHost == LoopInit /\ HostInit /\ mgr_hist = None

\* the same, in a behaviour that keeps the history of the manager's calls
InitManager == LoopInit /\ HostInit /\ mgr_hist = Some([op |-> "none", stopped |-> FALSE])

(***************************************************************************)
(* The lock of the manager's cell.  std::sync::Mutex is not reentrant: a   *)
(* thread that locks it while it holds a guard of it does not return from  *)
(* lock() (it blocks, or panics and poisons the lock), and then neither    *)
(* does any thread that locks it later.                                    *)
(***************************************************************************)
SelfLocked == {"start: status()", "create_hidden_service: lock()"}

LockHeld == \E t \in DOMAIN at : at[t] \in SelfLocked

Idle(t) == at[t] = "idle"

\* an event loop was spawned, and its thread is not inside a call that does
\* not return
LoopRuns == tasks /= {} /\ Idle(LoopThread)

\* create_hidden_service(listen_port) called with the control port
\* answering ctl
HiddenServiceCall(ctl) ==
    IF LockHeld THEN NeverReturns ELSE create_hidden_service(TOR_RUNTIME, ctl)

\* what a call of create_hidden_service by thread t that gave r leaves in
\* the cell, and where it leaves the thread
CallCreate(t, r) ==
    /\ TOR_RUNTIME' = IF r /= NeverReturns /\ Unwrap(r).ok
                      THEN PushHidden(TOR_RUNTIME, Unwrap(r).val)
                      ELSE TOR_RUNTIME
    /\ at' = IF r /= NeverReturns THEN at
             ELSE IF LockHeld THEN [at EXCEPT ![t] = "lock()"]
             ELSE [at EXCEPT ![t] = "create_hidden_service: lock()"]

(***************************************************************************)
(* Callers: command_tx.send(cmd).  A command with a reply channel gets the *)
(* next channel.                                                           *)
(***************************************************************************)
Addresses == { OnionMa, <<"b", "a", "d">> }
Keys == { <<"k">> }
Values == { <<7>> }

UpdateIndexCommands ==
    {[kind |-> "UpdateIndex", hash |-> i.hash, path |-> i.path, title |-> i.title,
      author |-> i.author, tags |-> i.tags] : i \in IndexInputs}

\* the commands without a reply channel
PlainCommands ==
    {[kind |-> "AddBootstrap", addrs |-> << OnionMa >>]}
      \cup {[kind |-> "PublishHash", hash |-> H1]}
      \cup {u \in UpdateIndexCommands : u.hash = H1}

\* the commands with a reply channel, before the channel is attached
FetchCommands ==
    {[kind |-> "Fetch", hash |-> h, out_path |-> o] : h \in Hashes, o \in OutPaths}

SearchCommands == {[kind |-> "Search", query |-> q] : q \in Queries}

\* those the model of the whole loop draws
ReplyCommands ==
    {[kind |-> "Fetch", hash |-> H2, out_path |-> OutA],
     [kind |-> "Search", query |-> <<"a">>]}
      \cup {[kind |-> k] :
              k \in {"GetMetrics", "Bootstrap", "GetMyOnionAddress",
                     "GetNetworkPeers", "ForceCreateOnionService"}}
      \cup {[kind |-> "PutRecord", key |-> k, value |-> v] : k \in Keys, v \in Values}
      \cup {[kind |-> "GetRecord", key |-> k] : k \in Keys}
      \cup {[kind |-> "AddPeerAddress", address |-> a] : a \in Addresses}

\* the record and peer-address commands of the record model
RecordKeys == { <<"k">>, <<"j">> }

RecordCommands ==
    {[kind |-> "PutRecord", key |-> k, value |-> v] : k \in RecordKeys, v \in Values}
      \cup {[kind |-> "GetRecord", key |-> k] : k \in RecordKeys}
      \cup {[kind |-> "AddPeerAddress", address |-> OnionMa]}

\* a variant of the channel that hands out the newest command first
EnqueueFront(q, cmd) == <<cmd>> \o q

\* tx.send(cmd) on the mpsc channel: the command goes behind those waiting
Enqueue(q, cmd) == Append(q, cmd)

SendPlain(commands) ==
    /\ Len(queue) < MaxQueue
    /\ \E cmd \in commands : queue' = Enqueue(queue, cmd)
    /\ outbox' = {}
    /\ UNCHANGED hostVars
    /\ UNCHANGED <<cmds, chanVars, indexVars, connected, searchVars, fetchVars, kadVars, phase>>

\* the command gets a fresh oneshot channel: the next number
SendWithReply(commands, max) ==
    /\ Len(queue) < MaxQueue
    /\ Len(cmds) < max
    /\ \E c \in commands :
         LET cmd == c @@ [reply |-> Len(cmds) + 1]
         IN  /\ queue' = Enqueue(queue, cmd)
             /\ cmds' = Append(cmds, cmd)
             /\ replies' = Append(replies, <<>>)
    /\ outbox' = {}
    /\ UNCHANGED hostVars
    /\ UNCHANGED <<dropped, indexVars, connected, searchVars, fetchVars, kadVars, phase>>

\* rx.recv() yields a command of this kind
Recv(kind) == LoopRuns /\ queue /= <<>> /\ Head(queue).kind = kind /\ queue' = Tail(queue)

\* reply.send(v) on channel c.  With the receiver dropped the send returns
\* Err(v), which every handler discards (`let _ = reply.send(..)`): the
\* value is recorded here as sent, and closed_rx tells that it arrived nowhere
Send(c, v) == replies' = [replies EXCEPT ![c] = Append(@, v)]

(***************************************************************************)
(* Gossip topics and what the loop publishes on them                       *)
(***************************************************************************)
\* gossipsub::IdentTopic::new("allibrary-content") and ("allibrary-peers")
topic == "allibrary-content"
topic_peers == "allibrary-peers"

\* [String]::join(sep)
RECURSIVE join(_, _)
join(sep, parts) ==
    IF parts = <<>> THEN <<>>
    ELSE IF Len(parts) = 1 THEN parts[1]
    ELSE parts[1] \o sep \o join(sep, Tail(parts))

Bar == "|"
ContentTag == <<"C", "O", "N", "T", "E", "N", "T", Bar>>

\* format!("CONTENT|{}|{}|{}|{}", hash, title, author or "Unknown", tags.join(","))
ContentLine(hash, title, author, tags) ==
    ContentTag \o hash \o <<Bar>> \o title \o <<Bar>>
      \o (IF IsSome(author) THEN Unwrap(author) ELSE <<"U", "n", "k", "n", "o", "w", "n">>)
      \o <<Bar>> \o join(<<",">>, tags)

\* format!("S|{}|{}", id, query)
SLine(id, query) == <<"S", Bar>> \o id \o <<Bar>> \o query

\* format!("R|{}|{}|{}", req_id, h, name)
RLine(id, hash, name) == <<"R", Bar>> \o id \o <<Bar>> \o hash \o <<Bar>> \o name

\* gossipsub.publish(t, text), whose result the loop ignores
Publish(t, text) == {[topic |-> t, data |-> text]}

(***************************************************************************)
(* DHT records                                                             *)
(***************************************************************************)
\* Duration::from_secs(24 * 60 * 60)
RECORD_TTL_S == 24 * 60 * 60

\* a variant of Record that names no publisher
RecordWithoutPublisher(key, value) ==
    [key |-> key, value |-> value, publisher |-> None, expires |-> Some(RECORD_TTL_S)]

\* kad::Record { key, value, publisher: Some(local_peer_id),
\* expires: Some(Instant::now() + 24 h) }, as every site that writes a
\* record builds it; `expires` is in seconds after the write
Record(key, value) ==
    [key |-> key, value |-> value, publisher |-> Some(local_peer_id),
     expires |-> Some(RECORD_TTL_S)]

\* kad.put_record(record, Quorum::One) of a record the node builds itself:
\* the record is put in the local store and a query is started, whose id
\* the loop does not keep.  The store refuses only a value over its size
\* limit or a record over its capacity, which these small records and the
\* few keys of a run never reach
put_record(store, record) == Insert(store, record.key, record)

\* format!("allibrary:content:{}", hash)
ContentKey(hash) == <<"allibrary:content:">> \o hash

\* format!("allibrary:manual:{}", address)
ManualKey(address) == <<"allibrary:manual:">> \o address

\* format!("allibrary:peer:{}", local_peer_id)
PresenceKey == <<"allibrary:peer:">> \o local_peer_id

\* serde_json::json!({hash, path, title, author, tags, peer_id}), as the
\* object it serialises
ContentJson(cmd) ==
    [hash |-> cmd.hash, path |-> cmd.path, title |-> cmd.title, author |-> cmd.author,
     tags |-> cmd.tags, peer_id |-> local_peer_id]

(***************************************************************************)
(* Command handlers without a reply channel                                *)
(***************************************************************************)
\* a variant of CmdAddBootstrap that counts a dialled peer as connected
CmdAddBootstrapConnecting ==
    /\ Recv("AddBootstrap")
    /\ \E p \in Peers : connected' = connected \cup {p}
    /\ outbox' = {}
    /\ UNCHANGED hostVars
    /\ UNCHANGED <<cmds, chanVars, indexVars, searchVars, fetchVars, kadVars, phase>>

\* Swarm::dial of each address: no state of the loop changes
CmdAddBootstrap ==
    /\ Recv("AddBootstrap")
    /\ outbox' = {}
    /\ UNCHANGED hostVars
    /\ UNCHANGED <<cmds, chanVars, indexVars, connected, searchVars, fetchVars, kadVars, phase>>

\* a variant of CmdPublishHash that also enters the hash in the index
CmdPublishHashIndexing ==
    /\ Recv("PublishHash")
    /\ outbox' = Publish(topic, Head(queue).hash)
    /\ UNCHANGED hostVars
    /\ content_index' = Insert(content_index, Head(queue).hash,
                               IndexedContent(<<>>, <<>>, None, <<>>))
    /\ UNCHANGED <<cmds, chanVars, published, connected, searchVars, fetchVars, kadVars, phase>>

\* gossipsub.publish(topic, hash): no state of the loop changes
CmdPublishHash ==
    /\ Recv("PublishHash")
    /\ outbox' = Publish(topic, Head(queue).hash)
    /\ UNCHANGED hostVars
    /\ UNCHANGED <<cmds, chanVars, indexVars, connected, searchVars, fetchVars, kadVars, phase>>

\* the index after UpdateIndex; the CONTENT announcement and the DHT record
\* leave the loop's state alone (the record's query id is not kept)
UpdateIndex(index, cmd) ==
    Insert(index, cmd.hash, IndexedContent(cmd.path, cmd.title, cmd.author, cmd.tags))

CmdUpdateIndex ==
    /\ Recv("UpdateIndex")
    /\ content_index' = UpdateIndex(content_index, Head(queue))
    /\ published' = Insert(published, Head(queue).hash,
                           [f \in {"path", "title", "author", "tags"} |-> Head(queue)[f]])
    /\ outbox' = Publish(topic, ContentLine(Head(queue).hash, Head(queue).title,
                                                    Head(queue).author, Head(queue).tags))
    /\ UNCHANGED hostVars
    /\ kad_store' = put_record(kad_store, Record(ContentKey(Head(queue).hash),
                                                  ContentJson(Head(queue))))
    /\ UNCHANGED <<cmds, chanVars, connected, searchVars, fetchVars, kadQueries,
                   get_after_put, phase>>

(***************************************************************************)
(* GetMetrics                                                              *)
(***************************************************************************)
\* nothing ever writes transfer_stats
transfer_stats == EmptyMap

DefaultStats == [downloaded |-> 0, size |-> 0, last_tick_bytes |-> 0, last_rate_bps |-> 0]

\* the snapshot, as the set of its tuples (the Vec's order is the HashMap's)
Metrics(index) ==
    { LET stat == IF h \in DOMAIN transfer_stats THEN transfer_stats[h] ELSE DefaultStats
      IN  <<h, stat.downloaded, stat.size, stat.last_rate_bps, "ok">> : h \in DOMAIN index }

CmdGetMetrics ==
    /\ Recv("GetMetrics")
    /\ Send(Head(queue).reply, Metrics(content_index))
    /\ outbox' = {}
    /\ UNCHANGED hostVars
    /\ UNCHANGED <<cmds, dropped, indexVars, connected, searchVars, fetchVars, kadVars, phase>>

(***************************************************************************)
(* Fetch                                                                   *)
(***************************************************************************)
PendingFile(peer, hash, offset, out_path, file, reply) ==
    [peer |-> peer, hash |-> hash, offset |-> offset, out_path |-> out_path,
     file |-> file, reply |-> reply]

\* a std::fs::File: the path it was opened at and its cursor
FileHandle(path, pos) == [path |-> path, pos |-> pos]

\* rr.send_request(peer, build_chunk_request(hash, offset)); `by` is the
\* reply channel of the fetch whose handler sent it
Request(peer, hash, offset, by) == [peer |-> peer, hash |-> hash, offset |-> offset, by |-> by]

\* the reply channels lost when a slot's value is replaced
SenderOf(slot) == IF IsSome(slot) THEN {Unwrap(slot).reply} ELSE {}

\* history: another Fetch opened an output file
Disturbed(hist) == [hist EXCEPT !.undisturbed = FALSE]

\* a peer is connected: request offset 0 from it and fill the slot
FetchStart(cmd, peer) ==
    /\ rr_pending' = rr_pending \cup {Request(peer, cmd.hash, 0, cmd.reply)}
    /\ current_fetch' = Some(PendingFile(peer, cmd.hash, 0, cmd.out_path,
                                          FileHandle(cmd.out_path, 0), cmd.reply))
    /\ dropped' = dropped \cup SenderOf(current_fetch)
    /\ fetch_hist' = FetchHist(cmd.reply, <<[peer |-> peer, offset |-> 0]>>, <<>>,
                               current_fetch = None /\ rr_pending = {})
    /\ UNCHANGED replies

\* a variant of FetchNoPeers that also frees the slot
FetchNoPeersFreeingSlot(cmd) ==
    /\ Send(cmd.reply, ErrVal("no peers connected"))
    /\ fetch_hist' = Disturbed(fetch_hist)
    /\ current_fetch' = None
    /\ UNCHANGED <<rr_pending, dropped>>

\* no peer is connected
FetchNoPeers(cmd) ==
    /\ Send(cmd.reply, ErrVal("no peers connected"))
    /\ fetch_hist' = Disturbed(fetch_hist)
    /\ UNCHANGED <<current_fetch, rr_pending, dropped>>

\* the output file cannot be opened
FetchOpenFailed(cmd) ==
    /\ Send(cmd.reply, ErrVal("failed to open output file"))
    /\ UNCHANGED <<current_fetch, rr_pending, dropped, files, fetch_hist>>

CmdFetch ==
    /\ Recv("Fetch")
    /\ LET cmd == Head(queue)
       IN  IF CanCreate(cmd.out_path)
           THEN /\ files' = [files EXCEPT ![cmd.out_path] = <<>>]
                /\ IF connected /= {}
                   THEN \E peer \in connected : FetchStart(cmd, peer)
                   ELSE FetchNoPeers(cmd)
           ELSE FetchOpenFailed(cmd)
    /\ outbox' = {}
    /\ UNCHANGED hostVars
    /\ UNCHANGED <<cmds, indexVars, connected, searchVars, kadVars, phase>>

\* serve-fetch: the response to a chunk request, over an index and the
\* files it names: the bytes one read() gives at the cursor the seek left
ServeChunk(index, fs, request) ==
    LET parsed == parse_chunk_request(request)
    IN  IF IsSome(parsed)
        THEN LET hash == Unwrap(parsed)[1]
                 offset == Unwrap(parsed)[2]
             IN  IF hash \in DOMAIN index
                 THEN IF index[hash].path \in DOMAIN fs
                      THEN ReadAt(fs[index[hash].path], seek(offset), CHUNK_SIZE)
                      ELSE <<>>
                 ELSE <<>>
        ELSE <<>>

\* the files that callers published from: the one that holds content H1
SourceFiles == (SrcH1 :> ContentBytes(H1))

\* an offset above i64::MAX, as its 8 little-endian bytes: 2^63
OffsetPastI64 == <<0, 0, 0, 0, 0, 0, 0, 128>>

\* the chunk requests remote peers send: for both hashes at the start of
\* the content, at a chunk boundary, at the last partial chunk, at the end
\* and past it; for H1 at an offset above i64::MAX; a buffer that is too
\* short, and one whose string length exceeds it
InboundRequests ==
    { build_chunk_request(h, off) :
        h \in Hashes,
        off \in {0, CHUNK_SIZE, 3 * CHUNK_SIZE, ContentSize(H1), ContentSize(H1) + 1} }
      \cup { U64LE(Len(H1)) \o H1 \o OffsetPastI64,
             <<1, 2, 3>>,
             U64LE(9) \o H1 \o U64LE(0) }

\* rr::Message::Request { request, channel, .. }: each branch hands one
\* response to send_response
RrRequest ==
    /\ LoopRuns
    /\ \E request \in InboundRequests :
         served' = Some([request |-> request,
                         responses |-> <<ServeChunk(content_index, files @@ SourceFiles,
                                                    request)>>])
    /\ outbox' = {}
    /\ UNCHANGED <<dialed, conns, closed_rx, mgr_hist, torVars, facadeVars>>
    /\ UNCHANGED <<queue, cmds, chanVars, indexVars, connected, searchVars, fetchVars,
                   kadVars, phase>>

\* a variant of Advance that moves the file cursor and leaves the offset
AdvanceCursorOnly(pf, response) ==
    [pf EXCEPT !.file = FileHandle(pf.file.path, pf.file.pos + FileLen(response))]

\* the pending fetch after a non-empty chunk was written
Advance(pf, response) ==
    [pf EXCEPT !.offset = pf.offset + FileLen(response),
               !.file = FileHandle(pf.file.path, pf.file.pos + FileLen(response))]

\* a variant of FetchDone that puts the fetch back when its reply has no
\* receiver
FetchDoneUnlessClosed(pf, r) ==
    /\ Send(pf.reply, OkVal(pf.out_path))
    /\ current_fetch' = IF pf.reply \in closed_rx THEN Some(pf) ELSE None
    /\ rr_pending' = rr_pending \ {r}
    /\ fetch_hist' = [fetch_hist EXCEPT !.got = Append(@, 0)]
    /\ UNCHANGED files

\* an empty chunk: reply with the output path and free the slot; the
\* result of the send is discarded
FetchDone(pf, r) ==
    /\ Send(pf.reply, OkVal(pf.out_path))
    /\ current_fetch' = None
    /\ rr_pending' = rr_pending \ {r}
    /\ fetch_hist' = [fetch_hist EXCEPT !.got = Append(@, 0)]
    /\ UNCHANGED files

\* a non-empty chunk: write it and request the next one from the same peer
FetchChunk(pf, r, response) ==
    /\ files' = [files EXCEPT ![pf.file.path] = WriteAt(@, pf.file.pos, response)]
    /\ current_fetch' = Some(Advance(pf, response))
    /\ rr_pending' = (rr_pending \ {r})
          \cup {Request(pf.peer, pf.hash, Advance(pf, response).offset, pf.reply)}
    /\ fetch_hist' = [fetch_hist EXCEPT
                        !.got = Append(@, FileLen(response)),
                        !.sent = Append(@, [peer |-> pf.peer,
                                            offset |-> Advance(pf, response).offset])]
    /\ UNCHANGED replies

\* rr::Message::Response: applied to whatever fetch is in the slot
OnResponse(r, response) ==
    IF IsSome(current_fetch)
    THEN IF response = <<>>
         THEN FetchDone(Unwrap(current_fetch), r)
         ELSE FetchChunk(Unwrap(current_fetch), r, response)
    ELSE /\ rr_pending' = rr_pending \ {r}
         /\ UNCHANGED <<current_fetch, files, replies, fetch_hist>>

\* the peer a request went to answers it by serve-fetch, and the loop
\* handles the response
RrResponse ==
    /\ LoopRuns
    /\ \E r \in rr_pending :
         OnResponse(r, ServeChunk(PeerIndex(r.peer), PeerFiles(r.peer),
                                   build_chunk_request(r.hash, r.offset)))
    /\ outbox' = {}
    /\ UNCHANGED hostVars
    /\ UNCHANGED <<queue, cmds, dropped, indexVars, connected, searchVars, kadVars, phase>>

\* rr::Event::OutboundFailure (a timeout, a closed connection): the loop
\* matches only rr::Event::Message, so nothing changes but the request is gone
RrOutboundFailure ==
    /\ LoopRuns
    /\ \E r \in rr_pending : rr_pending' = rr_pending \ {r}
    /\ outbox' = {}
    /\ UNCHANGED hostVars
    /\ UNCHANGED <<queue, cmds, chanVars, indexVars, connected, current_fetch, files,
                   fetch_hist, searchVars, kadVars, phase>>

(***************************************************************************)
(* Connections                                                             *)
(***************************************************************************)
\* SwarmEvent::ConnectionEstablished { peer_id, .. } for a peer in peers
\* that has fewer than max connections: connected.insert(peer_id)
Established(peers, max) ==
    /\ LoopRuns
    /\ \E p \in peers :
         /\ conns[p] < max
         /\ conns' = [conns EXCEPT ![p] = @ + 1]
         /\ connected' = connected \cup {p}
    /\ outbox' = {}
    /\ UNCHANGED <<dialed, remoteVars, torVars, facadeVars>>
    /\ UNCHANGED <<queue, cmds, chanVars, indexVars, searchVars, fetchVars, kadVars, phase>>

\* the event for a peer that has no connection yet
ConnectionEstablishedTo(peers) == Established(peers, 1)

ConnectionEstablished == ConnectionEstablishedTo(Peers)

\* connected.remove(&peer_id)
RemoveConnected(set, p) == set \ {p}

\* SwarmEvent::ConnectionClosed { peer_id, .. }: one connection to the peer
\* closed, and the requests outstanding on it fail with it
ConnectionClosed ==
    /\ LoopRuns
    /\ \E p \in Peers :
         /\ conns[p] > 0
         /\ conns' = [conns EXCEPT ![p] = @ - 1]
         /\ connected' = RemoveConnected(connected, p)
         /\ rr_pending' = {r \in rr_pending : r.peer /= p}
    /\ outbox' = {}
    /\ UNCHANGED <<dialed, remoteVars, torVars, facadeVars>>
    /\ UNCHANGED <<queue, cmds, chanVars, indexVars, current_fetch, files, fetch_hist,
                   searchVars, kadVars, phase>>

(***************************************************************************)
(* Search                                                                  *)
(***************************************************************************)
\* the name an index entry is reported under
ResultName(c) == IF c.title = <<>> THEN file_name(c.path) ELSE c.title

\* the case-insensitive substring match of Search and of serve-search
LocalMatch(query, c) ==
    LET ql == to_lowercase(query)
        author_hit == IF IsSome(c.author)
                      THEN contains(to_lowercase(Unwrap(c.author)), ql)
                      ELSE FALSE
        tags_hit == \E i \in 1..Len(c.tags) : contains(to_lowercase(c.tags[i]), ql)
    IN  contains(to_lowercase(ResultName(c)), ql) \/ author_hit \/ tags_hit

LocalResults(index, query) ==
    {<<h, ResultName(index[h])>> : h \in {x \in DOMAIN index : LocalMatch(query, index[x])}}

\* the sequences that list each element of S once: the orders in which
\* iterating a HashMap can produce them
Orders(S) ==
    {f \in [1..Cardinality(S) -> S] : \A i, j \in 1..Cardinality(S) : f[i] = f[j] => i = j}

\* the search slot; `elapsed` is started.elapsed(), the only way the loop
\* reads `started`
SearchState(id, elapsed, reply, results) ==
    [id |-> id, elapsed |-> elapsed, reply |-> reply, results |-> results]

\* the slot after Search: the S| broadcast and the two DHT lookups leave
\* the loop's state alone
SearchStart(cmd, buf) == Some(SearchState(Uuid(cmd.reply), 0, cmd.reply, buf))

CmdSearch ==
    /\ Recv("Search")
    /\ LET cmd == Head(queue)
       IN  \E buf \in Orders(LocalResults(content_index, cmd.query)) :
             /\ current_search' = SearchStart(cmd, buf)
             /\ search_hist' = SearchHist(cmd.reply, buf, <<>>, search_hist.stale)
    /\ outbox' = Publish(topic, SLine(Uuid(Head(queue).reply), Head(queue).query))
    /\ UNCHANGED hostVars
    /\ dropped' = dropped \cup SenderOf(current_search)
    /\ UNCHANGED <<cmds, replies, indexVars, connected, fetchVars, kadVars, phase>>

WindowOver(elapsed) == elapsed >= SEARCH_WINDOW_MS

\* ticker.tick(): TICK_MS after the previous one
Tick ==
    /\ LoopRuns
    /\ phase' = 0
    /\ IF IsSome(current_search)
       THEN LET cs == Unwrap(current_search)
                elapsed == cs.elapsed + (TICK_MS - phase)
            IN  IF WindowOver(elapsed)
                THEN /\ Send(cs.reply, cs.results)
                     /\ current_search' = None
                ELSE /\ current_search' = Some([cs EXCEPT !.elapsed = elapsed])
                     /\ UNCHANGED replies
       ELSE UNCHANGED <<current_search, replies>>
    /\ outbox' = {}
    /\ UNCHANGED hostVars
    /\ UNCHANGED <<queue, cmds, dropped, indexVars, connected, fetchVars, kadVars, search_hist>>

\* time passes between two ticks
TimePasses ==
    /\ phase + TimeStep < TICK_MS
    /\ phase' = phase + TimeStep
    /\ current_search' =
         IF IsSome(current_search)
         THEN Some([Unwrap(current_search) EXCEPT !.elapsed = @ + TimeStep])
         ELSE None
    /\ outbox' = {}
    /\ UNCHANGED hostVars
    /\ UNCHANGED <<queue, cmds, chanVars, indexVars, connected, fetchVars, kadVars, search_hist>>

\* announce_tick.tick(): a publish, the presence record, DHT lookups and a
\* bootstrap whose query ids the loop does not keep
AnnounceTick ==
    /\ LoopRuns
    /\ peer_announce /= <<>>
    /\ outbox' = Publish(topic_peers, peer_announce)
    /\ UNCHANGED hostVars
    /\ kad_store' = put_record(kad_store, Record(PresenceKey, peer_announce))
    /\ UNCHANGED <<queue, cmds, chanVars, indexVars, connected, searchVars, fetchVars,
                   kadQueries, get_after_put, phase>>

(***************************************************************************)
(* Gossip                                                                  *)
(***************************************************************************)
RECURSIVE trim(_)
trim(s) ==
    IF s = <<>> THEN s
    ELSE IF Head(s) = " " THEN trim(Tail(s))
    ELSE IF s[Len(s)] = " " THEN trim(SubSeq(s, 1, Len(s) - 1))
    ELSE s

\* str::split(sep): every part
split(sep, s) == splitn(Len(s) + 1, sep, s)

\* the entry a CONTENT announcement is stored as
Discovered(hash, title, author, tags) ==
    IndexedContent(DiscoveredPrefix \o hash, title, Some(author),
                   [i \in 1..Len(split(",", tags)) |-> trim(split(",", tags)[i])])

\* the index after a gossip message with text txt
GossipIndex(index, txt) ==
    LET rest == strip_prefix(txt, ContentTag)
    IN  IF IsSome(rest)
        THEN LET parts == splitn(4, Bar, Unwrap(rest))
             IN  IF Len(parts) = 4
                 THEN Insert(index, parts[1], Discovered(parts[1], parts[2], parts[3], parts[4]))
                 ELSE index
        ELSE index

\* a variant of AddResult that keeps the latest response only
AddResultReplacing(search, res_id, hash, name) ==
    IF IsSome(search) /\ Unwrap(search).id = res_id
    THEN Some([Unwrap(search) EXCEPT !.results = << <<hash, name>> >>])
    ELSE search

\* a variant of AddResult that does not compare the ids
AddResultAnyId(search, res_id, hash, name) ==
    IF IsSome(search)
    THEN Some([Unwrap(search) EXCEPT !.results = Append(@, <<hash, name>>)])
    ELSE search

\* a search response is added to the search in flight when the ids agree
AddResult(search, res_id, hash, name) ==
    IF IsSome(search) /\ Unwrap(search).id = res_id
    THEN Some([Unwrap(search) EXCEPT !.results = Append(@, <<hash, name>>)])
    ELSE search

\* the search slot after a gossip message with text txt
GossipSearch(search, txt) ==
    IF IsSome(strip_prefix(txt, ContentTag)) THEN search
    ELSE IF IsMultiaddr(txt) THEN search
    ELSE IF IsSome(strip_prefix(txt, <<"S", Bar>>)) THEN search
    ELSE LET rest == strip_prefix(txt, <<"R", Bar>>)
         IN  IF IsSome(rest)
             THEN LET parts == splitn(3, Bar, Unwrap(rest))
                  IN  IF Len(parts) = 3
                      THEN AddResult(search, parts[1], parts[2], parts[3])
                      ELSE search
             ELSE search

\* the responses published to a gossip message with text txt: one for
\* each index entry that matches a search request
ServeSearch(index, txt) ==
    IF IsSome(strip_prefix(txt, ContentTag)) THEN {}
    ELSE IF IsMultiaddr(txt) THEN {}
    ELSE LET rest == strip_prefix(txt, <<"S", Bar>>)
         IN  IF IsSome(rest)
             THEN LET parts == splitn(2, Bar, Unwrap(rest))
                  IN  IF Len(parts) = 2
                      THEN {[topic |-> topic,
                             data |-> RLine(parts[1], r[1], r[2])] :
                              r \in LocalResults(index, parts[2])}
                      ELSE {}
             ELSE {}

RemoteName == <<"N", Bar, "x">>

\* what remote peers publish on the content topic: search responses for
\* the ids of this node's searches and for another node's, a search
\* request, a peer address, content announcements, a malformed line
RemoteMessages ==
    {[kind |-> "R", id |-> Uuid(c), hash |-> H2, name |-> RemoteName] : c \in 1..MaxSearches}
      \cup {[kind |-> "R", id |-> <<"u", "0">>, hash |-> H1, name |-> <<"A", "l">>],
            [kind |-> "S", id |-> <<"u", "0">>, query |-> <<"a">>],
            [kind |-> "CONTENT", hash |-> H1, title |-> <<"Z">>, author |-> None,
             tags |-> << <<"D", "o">>, <<" ", "E">> >>],
            [kind |-> "text", txt |-> OnionMa],
            [kind |-> "text", txt |-> <<"R", Bar, "u", "1">>]}

\* the text of a message
Text(m) ==
    CASE m.kind = "R" -> RLine(m.id, m.hash, m.name)
      [] m.kind = "S" -> SLine(m.id, m.query)
      [] m.kind = "CONTENT" -> ContentLine(m.hash, m.title, m.author, m.tags)
      [] OTHER -> m.txt

\* history: a search response carrying the id of the search in flight, or
\* one that does not
Received(hist, m) ==
    IF m.kind = "R"
    THEN IF IsSome(current_search) /\ m.id = Unwrap(current_search).id
         THEN [hist EXCEPT !.received = Append(@, <<m.hash, m.name>>)]
         ELSE [hist EXCEPT !.stale = IF @ = None THEN None ELSE Some(1 - Unwrap(@))]
    ELSE hist

GossipMessage ==
    /\ LoopRuns
    /\ \E m \in RemoteMessages :
         /\ content_index' = GossipIndex(content_index, Text(m))
         /\ current_search' = GossipSearch(current_search, Text(m))
         /\ search_hist' = Received(search_hist, m)
         /\ outbox' = ServeSearch(content_index, Text(m))
         /\ Len(search_hist'.received) <= MaxResults
    /\ UNCHANGED <<hostVars, queue, cmds, chanVars, published, connected, fetchVars, kadVars, phase>>

(***************************************************************************)
(* Kademlia records and bootstrap.  A query started for a command is       *)
(* numbered like the command's reply channel: both are fresh.              *)
(***************************************************************************)
Query(id, kind) == [id |-> id, kind |-> kind]

\* kad.put_record returns Ok(query_id) or Err (the store refuses the
\* caller's value, whose size the model leaves open)
CmdPutRecord ==
    /\ Recv("PutRecord")
    /\ LET reply == Head(queue).reply
           record == Record(Head(queue).key, Head(queue).value)
       IN  \/ /\ pending_put_records' = Insert(pending_put_records, reply, reply)
              /\ kad_running' = kad_running \cup {Query(reply, "PutRecord")}
              /\ kad_store' = Insert(kad_store, record.key, record)
              /\ UNCHANGED replies
           \/ /\ Send(reply, ErrVal("Failed to initiate put record"))
              /\ UNCHANGED <<pending_put_records, kad_running, kad_store>>
    /\ outbox' = {}
    /\ UNCHANGED hostVars
    /\ UNCHANGED <<cmds, dropped, indexVars, connected, searchVars, fetchVars,
                   pending_get_records, pending_bootstrap, get_after_put, phase>>

\* history: the values of the PutRecord commands for this key answered Ok
PutAndAnswered(key) ==
    {cmds[c].value : c \in {x \in 1..Len(cmds) :
        /\ cmds[x].kind = "PutRecord"
        /\ cmds[x].key = key
        /\ replies[x] /= <<>>
        /\ replies[x][1].ok}}

CmdGetRecord ==
    /\ Recv("GetRecord")
    /\ LET reply == Head(queue).reply
       IN  /\ pending_get_records' = Insert(pending_get_records, reply, reply)
           /\ kad_running' = kad_running \cup {Query(reply, "GetRecord")}
           /\ get_after_put' = Insert(get_after_put, reply, PutAndAnswered(Head(queue).key))
    /\ outbox' = {}
    /\ UNCHANGED hostVars
    /\ UNCHANGED <<cmds, chanVars, indexVars, connected, searchVars, fetchVars,
                   pending_put_records, pending_bootstrap, kad_store, phase>>

\* kad.bootstrap returns Ok(query_id) or Err (no known peers)
CmdBootstrap ==
    /\ Recv("Bootstrap")
    /\ LET reply == Head(queue).reply
       IN  \/ /\ pending_bootstrap' = Insert(pending_bootstrap, reply, reply)
              /\ kad_running' = kad_running \cup {Query(reply, "Bootstrap")}
              /\ UNCHANGED replies
           \/ /\ Send(reply, ErrVal("Failed to initiate bootstrap"))
              /\ UNCHANGED <<pending_bootstrap, kad_running>>
    /\ outbox' = {}
    /\ UNCHANGED hostVars
    /\ UNCHANGED <<cmds, dropped, indexVars, connected, searchVars, fetchVars,
                   pending_put_records, pending_get_records, kad_store, get_after_put, phase>>

\* the reply to a query result: the GetRecord arm sends an empty vector
\* whatever record was found
QueryReply(kind, ok) ==
    IF ok THEN OkVal(<<>>)
    ELSE ErrVal(CASE kind = "PutRecord" -> "Failed to store record"
                  [] kind = "GetRecord" -> "Failed to retrieve record"
                  [] OTHER -> "Bootstrap failed")

\* the pending map a query result of this kind is looked up in
PendingOf(kind) ==
    CASE kind = "PutRecord" -> pending_put_records
      [] kind = "GetRecord" -> pending_get_records
      [] OTHER -> pending_bootstrap

\* a get_record query whose key is in the local store reports the record
FoundLocally(q) == q.kind = "GetRecord" /\ cmds[q.id].key \in DOMAIN kad_store

\* kad::Event::OutboundQueryProgressed { id, result }: one query reports
\* progress any number of times, the last time with step.last
KadQueryProgressed ==
    /\ LoopRuns
    /\ \E q \in kad_running, ok \in BOOLEAN, last \in BOOLEAN :
         /\ FoundLocally(q) => ok
         /\ IF q.id \in DOMAIN PendingOf(q.kind)
            THEN Send(PendingOf(q.kind)[q.id], QueryReply(q.kind, ok))
            ELSE UNCHANGED replies
         /\ pending_put_records' =
              IF q.kind = "PutRecord" THEN Remove(pending_put_records, q.id)
              ELSE pending_put_records
         /\ pending_get_records' =
              IF q.kind = "GetRecord" THEN Remove(pending_get_records, q.id)
              ELSE pending_get_records
         /\ pending_bootstrap' =
              IF q.kind = "Bootstrap" THEN Remove(pending_bootstrap, q.id)
              ELSE pending_bootstrap
         /\ kad_running' = IF last THEN kad_running \ {q} ELSE kad_running
    /\ outbox' = {}
    /\ UNCHANGED hostVars
    /\ UNCHANGED <<queue, cmds, dropped, indexVars, connected, searchVars, fetchVars,
                   kad_store, get_after_put, phase>>

\* every other Kademlia event, and the results of the queries the loop
\* started without keeping their id: only logged
KadOther == LoopRuns /\ UNCHANGED vars

(***************************************************************************)
(* Network information, manual peers, onion service                        *)
(***************************************************************************)
CmdGetMyOnionAddress ==
    /\ Recv("GetMyOnionAddress")
    /\ IF peer_announce /= <<>>
       THEN Send(Head(queue).reply, OkVal(peer_announce))
       ELSE Send(Head(queue).reply,
                 ErrVal("No onion address available - Tor hidden service not created"))
    /\ outbox' = {}
    /\ UNCHANGED hostVars
    /\ UNCHANGED <<cmds, dropped, indexVars, connected, searchVars, fetchVars, kadVars, phase>>

CmdGetNetworkPeers ==
    /\ Recv("GetNetworkPeers")
    /\ Send(Head(queue).reply, OkVal({<<"Peer ID: ", p>> : p \in connected}))
    /\ outbox' = {}
    /\ UNCHANGED hostVars
    /\ UNCHANGED <<cmds, dropped, indexVars, connected, searchVars, fetchVars, kadVars, phase>>

CmdAddPeerAddress ==
    /\ Recv("AddPeerAddress")
    /\ IF IsMultiaddr(Head(queue).address)
       THEN /\ Send(Head(queue).reply,
                    OkVal(<<"Successfully added peer address: ">> \o Head(queue).address))
            /\ kad_store' = put_record(kad_store, Record(ManualKey(Head(queue).address),
                                                          Head(queue).address))
       ELSE /\ Send(Head(queue).reply, ErrVal("Invalid multiaddr format"))
            /\ UNCHANGED kad_store
    /\ outbox' = {}
    /\ UNCHANGED hostVars
    /\ UNCHANGED <<cmds, dropped, indexVars, connected, searchVars, fetchVars, kadQueries,
                   get_after_put, phase>>

\* create_hidden_service(listen_port) in the loop's thread
CmdForceCreateOnionService ==
    /\ Recv("ForceCreateOnionService")
    /\ \E ctl \in ControlAnswers :
         LET r == HiddenServiceCall(ctl)
         IN  /\ CallCreate(LoopThread, r)
             /\ IF r = NeverReturns THEN UNCHANGED replies
                ELSE IF Unwrap(r).ok
                THEN Send(Head(queue).reply,
                          OkVal(<<"Onion service created: ">> \o Unwrap(r).val))
                ELSE Send(Head(queue).reply, ErrVal("Failed to create onion service"))
    /\ outbox' = {}
    /\ UNCHANGED <<netVars, daemons, progress, ret, facadeVars>>
    /\ UNCHANGED <<cmds, dropped, indexVars, connected, searchVars, fetchVars, kadVars, phase>>

(***************************************************************************)
(* The dials.  Each action is one Swarm::dial statement of the runtime,    *)
(* with the addresses that can reach it, and records the route that the    *)
(* composed transport gives the dial.                                      *)
(***************************************************************************)
\* address texts: a bootstrap node on the overlay, IPv4 and IPv6 hosts, an
\* IPv4 host behind /ws and one with a peer id, a name without a port, the
\* port without a host, the empty text, and a text that is no address
Ip4Ma == <<"/", "ip4", "/", "10.0.0.7", "/", "tcp", "/", "443">>
Ip6Ma == <<"/", "ip6", "/", "fd00::7", "/", "tcp", "/", "443">>
DialTexts ==
    { OnionMa, Ip4Ma, Ip6Ma, Ip4Ma \o <<"/", "ws">>, Ip4Ma \o <<"/", "p2p", "/", "p1">>,
      <<"/", "dnsaddr", "/", "b.onion">>, <<"/", "tcp", "/", "443">>, <<>>,
      <<"b", "a", "d">> }

\* ALLIB_BOOTSTRAP_ONIONS: unset, or a list of host:port items; a host is
\* written with one element for each '/' in it and for each part between
BootstrapEnv ==
    { None,
      Some(<<>>),
      Some(<<[host |-> <<"b.onion">>, port |-> "443"]>>),
      Some(<<[host |-> <<"b", "/", "x">>, port |-> "443"]>>) }

\* the two bootstrap nodes dialled when the variable is not set
fallback_bootstrap ==
    <<[host |-> <<"allibrary-bootstrap1.onion">>, port |-> "443"],
      [host |-> <<"allibrary-bootstrap2.onion">>, port |-> "443"]>>

\* format!("/dnsaddr/{}/tcp/{}/ws", host, port).parse(), or /ip4/127.0.0.1/tcp/9
\* when that does not parse
BootstrapMa(item) ==
    LET ma == ParseMultiaddr(onion_bootstrap_addr(item.host, item.port))
    IN  IF IsSome(ma) THEN Unwrap(ma)
        ELSE Unwrap(ParseMultiaddr(<<"/", "ip4", "/", "127.0.0.1", "/", "tcp", "/", "9">>))

\* Swarm::dial(&mut swarm, addr) for each of addrs at a statement: the dials
\* recorded after it
SwarmDial(site, addrs) ==
    dialed \cup {[site |-> site, addr |-> a, route |-> OrTransportDial(a),
                  outcome |-> None] : a \in addrs}

\* start_runtime dials the bootstrap nodes
DialAtStartup ==
    /\ \E env \in BootstrapEnv :
          LET items == IF IsSome(env) THEN Unwrap(env) ELSE fallback_bootstrap
          IN  dialed' = SwarmDial("startup", {BootstrapMa(items[i]) : i \in 1..Len(items)})
    /\ Cardinality(dialed') <= MaxDials
    /\ UNCHANGED <<loopVars, conns, remoteVars, torVars, facadeVars>>

\* Command::AddBootstrap { addrs }: each address is dialled
DialOnAddBootstrap ==
    /\ \E text \in DialTexts :
          /\ IsMultiaddr(text)
          /\ dialed' = SwarmDial("AddBootstrap", {Unwrap(ParseMultiaddr(text))})
    /\ Cardinality(dialed') <= MaxDials
    /\ UNCHANGED <<loopVars, conns, remoteVars, torVars, facadeVars>>

\* Command::AddPeerAddress { address }: dialled when it parses
DialOnAddPeerAddress ==
    /\ \E text \in DialTexts :
          /\ IsMultiaddr(text)
          /\ dialed' = SwarmDial("AddPeerAddress", {Unwrap(ParseMultiaddr(text))})
    /\ Cardinality(dialed') <= MaxDials
    /\ UNCHANGED <<loopVars, conns, remoteVars, torVars, facadeVars>>

\* a gossip message that is no CONTENT line and parses as an address
DialOnGossip ==
    /\ \E text \in DialTexts :
          /\ strip_prefix(text, ContentTag) = None
          /\ IsMultiaddr(text)
          /\ dialed' = SwarmDial("gossip", {Unwrap(ParseMultiaddr(text))})
    /\ Cardinality(dialed') <= MaxDials
    /\ UNCHANGED <<loopVars, conns, remoteVars, torVars, facadeVars>>

\* the future of a dial that the SOCKS transport accepted is run: the dial
\* gets what the egress did and what the future gave
SocksDialResolves ==
    /\ \E d \in dialed, e \in SocksEgress :
          /\ d.route.via = "socks"
          /\ d.outcome = None
          /\ dialed' = (dialed \ {d})
                          \cup {[d EXCEPT !.outcome =
                                   Some([egress |-> e, result |-> SocksFuture(d.route, e)])]}
    /\ UNCHANGED <<loopVars, conns, remoteVars, torVars, facadeVars>>

NextDial ==
    \/ SocksDialResolves
    \/ DialAtStartup
    \/ DialOnAddBootstrap
    \/ DialOnAddPeerAddress
    \/ DialOnGossip

SpecDial == Init /\ [][NextDial]_vars

(***************************************************************************)
(* The manager's operations and the facade's start, each called by a       *)
(* thread.  An operation holds the cell's lock from its first statement    *)
(* to its return, so one that returns is one step.                         *)
(***************************************************************************)
\* the calls of thread t that have returned
Calls(t) == IF IsSome(ret[t]) THEN Unwrap(ret[t]).n ELSE 0

\* thread t is free to make a call
CanCall(t) == Idle(t) /\ Calls(t) < MaxCalls

Return(t, op, v) ==
    ret' = [ret EXCEPT ![t] = Some([op |-> op, val |-> v, n |-> Calls(t) + 1])]

Blocks(t, where) == at' = [at EXCEPT ![t] = where] /\ UNCHANGED <<TOR_RUNTIME, daemons, progress, ret>>

\* the history after a call, where one is kept: what the call was given and
\* did, and whether a stop has found the cell full so far
Observe(h) ==
    mgr_hist' = IF mgr_hist = None THEN None
                ELSE Some(h @@ [stopped |-> \/ Unwrap(mgr_hist).stopped
                                            \/ h.op = "stop" /\ IsSome(TOR_RUNTIME)])

\* what a manager call leaves alone outside the manager
MgrFrame == UNCHANGED <<loopVars, dialed, conns, served, closed_rx, facadeVars>>

\* history: what a start was given and found, and what it did
StartHist(config, env) ==
    [op |-> "start", socks_override |-> config.socks_override,
     data_dir |-> env.data_dir, port_9150 |-> env.port_9150, probe |-> env.probe,
     probed |-> start(config, env).probed, spawned |-> start(config, env).spawned]

\* start(config): with the cell full it returns Ok(status()), and status()
\* locks the cell that start's guard still holds
TorStart(t) ==
    /\ CanCall(t)
    /\ IF LockHeld THEN Blocks(t, "lock()") /\ UNCHANGED mgr_hist
       ELSE IF IsSome(TOR_RUNTIME) THEN Blocks(t, "start: status()") /\ UNCHANGED mgr_hist
       ELSE \E config \in StartConfigs, env \in StartEnvs :
               /\ TOR_RUNTIME' = start(config, env).runtime
               /\ daemons' = IF start(config, env).spawned THEN daemons + 1 ELSE daemons
               /\ \E p \in ProgressValues :
                    /\ Answers(env.probe, p)
                    /\ progress' = IF start(config, env).spawned THEN p ELSE progress
               /\ Return(t, "start", start(config, env).result)
               /\ Observe(StartHist(config, env))
               /\ UNCHANGED at
    /\ MgrFrame

TorStatus(t) ==
    /\ CanCall(t)
    /\ IF LockHeld THEN Blocks(t, "lock()") /\ UNCHANGED mgr_hist
       ELSE /\ \E probe \in Probes :
                 /\ Answers(probe, progress)
                 /\ Return(t, "status", status(TOR_RUNTIME, probe))
                 /\ Observe([op |-> "status", probe |-> probe])
            /\ UNCHANGED <<TOR_RUNTIME, daemons, progress, at>>
    /\ MgrFrame

\* a variant of TorStop that answers true whatever the cell holds
TorStopAlwaysTrue(t) ==
    /\ CanCall(t)
    /\ IF LockHeld THEN Blocks(t, "lock()") /\ UNCHANGED mgr_hist
       ELSE /\ TOR_RUNTIME' = None
            /\ daemons' = IF IsSome(TOR_RUNTIME) /\ IsSome(Unwrap(TOR_RUNTIME).child)
                          THEN daemons - 1 ELSE daemons
            /\ progress' = 0
            /\ Return(t, "stop", TRUE)
            /\ Observe([op |-> "stop"])
            /\ UNCHANGED at
    /\ MgrFrame

\* stop(): the cell is emptied and the child, if any, killed
TorStop(t) ==
    /\ CanCall(t)
    /\ IF LockHeld THEN Blocks(t, "lock()") /\ UNCHANGED mgr_hist
       ELSE /\ TOR_RUNTIME' = None
            /\ daemons' = IF IsSome(TOR_RUNTIME) /\ IsSome(Unwrap(TOR_RUNTIME).child)
                          THEN daemons - 1 ELSE daemons
            /\ progress' = 0
            /\ Return(t, "stop", IsSome(TOR_RUNTIME))
            /\ Observe([op |-> "stop"])
            /\ UNCHANGED at
    /\ MgrFrame

TorListHidden(t) ==
    /\ CanCall(t)
    /\ IF LockHeld THEN Blocks(t, "lock()") /\ UNCHANGED mgr_hist
       ELSE /\ Return(t, "list_hidden",
                      IF IsSome(TOR_RUNTIME) THEN Unwrap(TOR_RUNTIME).hidden_services
                      ELSE <<>>)
            /\ Observe([op |-> "list_hidden"])
            /\ UNCHANGED <<TOR_RUNTIME, daemons, progress, at>>
    /\ MgrFrame

TorCreateHiddenService(t) ==
    /\ CanCall(t)
    /\ \E ctl \in ControlAnswers :
         /\ CallCreate(t, HiddenServiceCall(ctl))
         /\ IF HiddenServiceCall(ctl) = NeverReturns THEN UNCHANGED <<ret, mgr_hist>>
            ELSE /\ Return(t, "create_hidden_service", Unwrap(HiddenServiceCall(ctl)))
                 /\ Observe([op |-> "create_hidden_service", ctl |-> ctl.kind])
    /\ UNCHANGED <<daemons, progress>>
    /\ MgrFrame

\* auth_control takes and releases the lock before it connects
TorRotateCircuit(t) ==
    /\ CanCall(t)
    /\ IF LockHeld THEN Blocks(t, "lock()") /\ UNCHANGED mgr_hist
       ELSE /\ \E ctl \in NewnymAnswers :
                 /\ Return(t, "rotate_circuit", rotate_circuit(TOR_RUNTIME, ctl))
                 /\ Observe([op |-> "rotate_circuit", ctl |-> ctl])
            /\ UNCHANGED <<TOR_RUNTIME, daemons, progress, at>>
    /\ MgrFrame

\* enable_bridges(bridges), which also begins with auth_control
TorEnableBridges(t) ==
    /\ CanCall(t)
    /\ IF LockHeld THEN Blocks(t, "lock()") /\ UNCHANGED mgr_hist
       ELSE /\ \E bridges \in BridgeLists, ctl \in BridgeAnswers :
                 /\ Return(t, "enable_bridges", enable_bridges(TOR_RUNTIME, ctl, bridges))
                 /\ Observe([op |-> "enable_bridges", ctl |-> ctl, bridges |-> bridges])
            /\ UNCHANGED <<TOR_RUNTIME, daemons, progress, at>>
    /\ MgrFrame

\* the spawned daemon gets on with its bootstrap
DaemonBootstraps ==
    /\ daemons > 0
    /\ \E p \in ProgressValues : p > progress /\ progress' = p
    /\ UNCHANGED <<TOR_RUNTIME, daemons, at, ret, mgr_hist>>
    /\ MgrFrame

\* a variant of start_runtime that spawns the event loop before it creates
\* the hidden service
start_runtime_spawning_first(r) ==
    [spawned |-> TRUE,
     result |-> IF r = NeverReturns THEN NeverReturns
                ELSE IF Unwrap(r).ok THEN Returns(OkVal("handle"))
                ELSE Returns(ErrVal("Tor hidden service creation failed"))]

\* start_runtime(Some(socks_addr)), in which create_hidden_service gave r:
\* whether the event loop is spawned, and what is returned
start_runtime(r) ==
    IF r = NeverReturns THEN [spawned |-> FALSE, result |-> NeverReturns]
    ELSE IF Unwrap(r).ok THEN [spawned |-> TRUE, result |-> Returns(OkVal("handle"))]
    ELSE [spawned |-> FALSE,
          result |-> Returns(ErrVal("Tor hidden service creation failed"))]

\* start_libp2p_with_socks(socks_addr): the cells are set when start_runtime
\* returned a handle
FacadeStart(t) ==
    /\ CanCall(t)
    /\ Cardinality(tasks) < MaxTasks
    /\ \E ctl \in ControlAnswers :
         LET rt == start_runtime(HiddenServiceCall(ctl))
             task == Cardinality(tasks) + 1
         IN  /\ CallCreate(t, HiddenServiceCall(ctl))
             /\ tasks' = IF rt.spawned THEN tasks \cup {task} ELSE tasks
             /\ IF rt.result = NeverReturns THEN UNCHANGED <<ret, P2P_TX, RUNTIME>>
                ELSE IF Unwrap(rt.result).ok
                THEN /\ P2P_TX' = Some(task)
                     /\ RUNTIME' = Some(Runtime(Loopback(socks_port)))
                     /\ Return(t, "start_libp2p_with_socks", TRUE)
                ELSE /\ Return(t, "start_libp2p_with_socks", FALSE)
                     /\ UNCHANGED <<P2P_TX, RUNTIME>>
    /\ UNCHANGED <<daemons, progress, loopVars, netVars, call, locks>>

(***************************************************************************)
(* The manager alone, called by one thread, with the history of its calls  *)
(***************************************************************************)
\* the thread that calls the manager here
Caller == "t1"

NextManager ==
    \/ TorStart(Caller)
    \/ TorStatus(Caller)
    \/ TorStop(Caller)
    \/ TorListHidden(Caller)
    \/ TorCreateHiddenService(Caller)
    \/ TorRotateCircuit(Caller)
    \/ TorEnableBridges(Caller)
    \/ DaemonBootstraps

SpecManager == InitManager /\ [][NextManager]_vars

NextHost ==
    \/ \E t \in Threads : TorStart(t)
    \/ \E t \in Threads : TorStatus(t)
    \/ \E t \in Threads : TorStop(t)
    \/ \E t \in Threads : TorListHidden(t)
    \/ \E t \in Threads : TorCreateHiddenService(t)
    \/ \E t \in Threads : TorRotateCircuit(t)
    \/ DaemonBootstraps
    \/ \E t \in Threads : FacadeStart(t)

SpecHost == InitHost /\ [][NextHost]_vars

(***************************************************************************)
(* The facade's commands (commands/p2p.rs), each called by a thread.  A    *)
(* command is a sequence of steps: taking a lock, the statements under the *)
(* guard up to its drop, a send on the command queue, the wait for a reply. *)
(***************************************************************************)
\* Path::file_stem(): the file name without its extension
file_stem(path) ==
    LET name == file_name(path)
        dots == {i \in 2..Len(name) : name[i] = "."}
    IN  IF dots = {} THEN name
        ELSE SubSeq(name, 1, (CHOOSE i \in dots : \A j \in dots : j <= i) - 1)

\* Path::parent(): the path without its last component, None for a root or
\* an empty path
parent(path) ==
    LET slashes == {i \in 1..Len(path) : path[i] = "/"}
        last == IF slashes = {} THEN 0 ELSE CHOOSE i \in slashes : \A j \in slashes : j <= i
    IN  IF path = <<>> \/ path = <<"/">> THEN None
        ELSE IF last <= 1 THEN Some(SubSeq(path, 1, last))
        ELSE Some(SubSeq(path, 1, last - 1))

\* the author publish_content derives: the name of the parent directory
parent_name(path) ==
    IF IsSome(parent(path)) /\ file_name(Unwrap(parent(path))) /= <<>>
    THEN Some(file_name(Unwrap(parent(path))))
    ELSE None

\* format!("{:x}", Sha256(bytes)): the hash that identifies the bytes
sha256(bytes) == CHOOSE h \in Hashes : ContentBytes(h) = bytes

ContentMeta(title, author, tags) == [title |-> title, author |-> author, tags |-> tags]

\* the paths callers publish: a file that exists and one that does not
NoFile == <<"/", "s", "/", "n">>
PublishPaths == {SrcH1, NoFile}

\* the positions at which a command takes a lock: the lock, and the
\* position it is at once it holds the guard
LockSites ==
    ("publish_content: RUNTIME.lock()"
        :> [lock |-> "RUNTIME", then |-> "publish_content: insert"])
    @@ ("publish_content: P2P_TX.lock()"
        :> [lock |-> "P2P_TX", then |-> "publish_content: cloned()"])
    @@ ("fetch_content: P2P_TX.lock()"
        :> [lock |-> "P2P_TX", then |-> "fetch_content: cloned()"])
    @@ ("search_p2p_network: P2P_TX.lock()"
        :> [lock |-> "P2P_TX", then |-> "search_p2p_network: cloned()"])
    @@ ("search_p2p_network: RUNTIME.lock()"
        :> [lock |-> "RUNTIME", then |-> "search_p2p_network: collect"])
    @@ ("init_p2p_node: RUNTIME.lock()"
        :> [lock |-> "RUNTIME", then |-> "init_p2p_node: store"])

\* the positions at which a command awaits the event loop: a send on the
\* command queue, or a reply
AwaitSites ==
    {"publish_content: send(UpdateIndex)", "publish_content: send(PublishHash)",
     "fetch_content: send(Fetch)", "fetch_content: reply_rx",
     "search_p2p_network: send(Search)", "search_p2p_network: reply_rx"}

\* a variant of Release in which the guard outlives its block
KeepGuard(ls, l) == ls

\* the guard of lock l is dropped at the end of the block that took it
Release(ls, l) == [ls EXCEPT ![l] = None]

\* what no facade step touches
FacadeFrame ==
    /\ outbox' = {}
    /\ UNCHANGED <<netVars, TOR_RUNTIME, daemons, progress, tasks>>
    /\ UNCHANGED <<dropped, indexVars, connected, searchVars, fetchVars, kadVars, phase>>

Goto(t, pos) == at' = [at EXCEPT ![t] = pos]

\* the command of thread t returns v
Done(t, op, v) ==
    /\ Goto(t, "idle")
    /\ Return(t, op, v)
    /\ call' = [call EXCEPT ![t] = None]

\* thread t is free to call a facade command
CanCallFacade(t) == Idle(t) /\ Calls(t) < MaxFacadeCalls

\* the command queue has room for a send (its capacity in the code is 64)
SendRoom == Len(queue) < MaxBacklog

\* X.lock().unwrap() at one of the lock sites: the thread gets the guard
\* when no thread holds one
Lock(t) ==
    /\ at[t] \in DOMAIN LockSites
    /\ locks[LockSites[at[t]].lock] = None
    /\ locks' = [locks EXCEPT ![LockSites[at[t]].lock] = Some(t)]
    /\ Goto(t, LockSites[at[t]].then)
    /\ UNCHANGED <<queue, cmds, replies, ret, call, P2P_TX, RUNTIME>>
    /\ FacadeFrame

\* publish_content(path): the file is read and hashed
PublishContent(t) ==
    /\ CanCallFacade(t)
    /\ \E path \in PublishPaths :
         IF path \in DOMAIN SourceFiles
         THEN /\ Goto(t, "publish_content: RUNTIME.lock()")
              /\ call' = [call EXCEPT ![t] =
                            Some([path |-> path, hash |-> sha256(SourceFiles[path])])]
              /\ UNCHANGED ret
         ELSE /\ Return(t, "publish_content", ErrVal("Failed to read file"))
              /\ UNCHANGED <<at, call>>
    /\ UNCHANGED <<queue, cmds, replies, locks, P2P_TX, RUNTIME>>
    /\ FacadeFrame

\* under the RUNTIME guard: the path and the metadata are inserted when the
\* cell is full
PublishInsert(t) ==
    /\ at[t] = "publish_content: insert"
    /\ LET c == Unwrap(call[t])
           meta == ContentMeta(Some(file_stem(c.path)), parent_name(c.path), <<>>)
       IN  RUNTIME' = IF IsSome(RUNTIME)
                      THEN Some([Unwrap(RUNTIME) EXCEPT
                                   !.content_index = Insert(@, c.hash, c.path),
                                   !.metadata_index = Insert(@, c.hash, meta)])
                      ELSE RUNTIME
    /\ locks' = Release(locks, "RUNTIME")
    /\ Goto(t, "publish_content: P2P_TX.lock()")
    /\ UNCHANGED <<queue, cmds, replies, ret, call, P2P_TX>>
    /\ FacadeFrame

\* let tx_opt = { P2P_TX.lock().unwrap().as_ref().cloned() }
PublishCloned(t) ==
    /\ at[t] = "publish_content: cloned()"
    /\ locks' = Release(locks, "P2P_TX")
    /\ IF IsSome(P2P_TX)
       THEN Goto(t, "publish_content: send(UpdateIndex)") /\ UNCHANGED <<ret, call>>
       ELSE Done(t, "publish_content", ErrVal("p2p runtime not started"))
    /\ UNCHANGED <<queue, cmds, replies, P2P_TX, RUNTIME>>
    /\ FacadeFrame

PublishSendUpdateIndex(t) ==
    /\ at[t] = "publish_content: send(UpdateIndex)"
    /\ SendRoom
    /\ LET c == Unwrap(call[t])
       IN  queue' = Enqueue(queue, [kind |-> "UpdateIndex", hash |-> c.hash,
                                    path |-> c.path, title |-> file_stem(c.path),
                                    author |-> parent_name(c.path), tags |-> <<>>])
    /\ Goto(t, "publish_content: send(PublishHash)")
    /\ UNCHANGED <<cmds, replies, ret, call, locks, P2P_TX, RUNTIME>>
    /\ FacadeFrame

PublishSendPublishHash(t) ==
    /\ at[t] = "publish_content: send(PublishHash)"
    /\ SendRoom
    /\ queue' = Enqueue(queue, [kind |-> "PublishHash", hash |-> Unwrap(call[t]).hash])
    /\ Done(t, "publish_content", OkVal(Unwrap(call[t]).hash))
    /\ UNCHANGED <<cmds, replies, locks, P2P_TX, RUNTIME>>
    /\ FacadeFrame

\* fetch_content(cid_or_hash, out_path)
FetchContent(t) ==
    /\ CanCallFacade(t)
    /\ Goto(t, "fetch_content: P2P_TX.lock()")
    /\ call' = [call EXCEPT ![t] = Some([hash |-> H1, out_path |-> OutA, reply |-> 0])]
    /\ UNCHANGED <<queue, cmds, replies, ret, locks, P2P_TX, RUNTIME>>
    /\ FacadeFrame

FetchCloned(t) ==
    /\ at[t] = "fetch_content: cloned()"
    /\ locks' = Release(locks, "P2P_TX")
    /\ IF IsSome(P2P_TX)
       THEN Goto(t, "fetch_content: send(Fetch)") /\ UNCHANGED <<ret, call>>
       ELSE Done(t, "fetch_content", ErrVal("p2p runtime not started"))
    /\ UNCHANGED <<queue, cmds, replies, P2P_TX, RUNTIME>>
    /\ FacadeFrame

\* a command with a fresh oneshot channel is sent, and the thread is left
\* with the channel's receiver
SendForReply(t, cmd, pos) ==
    /\ SendRoom
    /\ queue' = Enqueue(queue, cmd @@ [reply |-> Len(cmds) + 1])
    /\ cmds' = Append(cmds, cmd @@ [reply |-> Len(cmds) + 1])
    /\ replies' = Append(replies, <<>>)
    /\ call' = [call EXCEPT ![t] = Some([Unwrap(@) EXCEPT !.reply = Len(cmds) + 1])]
    /\ Goto(t, pos)
    /\ UNCHANGED <<ret, locks, P2P_TX, RUNTIME>>
    /\ FacadeFrame

FetchSend(t) ==
    /\ at[t] = "fetch_content: send(Fetch)"
    /\ SendForReply(t, [kind |-> "Fetch", hash |-> Unwrap(call[t]).hash,
                        out_path |-> Unwrap(call[t]).out_path],
                    "fetch_content: reply_rx")

\* reply_rx.await: the reply, or the error of a channel whose sender was
\* dropped
FetchReply(t) ==
    /\ at[t] = "fetch_content: reply_rx"
    /\ LET c == Unwrap(call[t]).reply
       IN  IF replies[c] /= <<>>
           THEN Done(t, "fetch_content", replies[c][1])
           ELSE c \in dropped /\ Done(t, "fetch_content", ErrVal("channel closed"))
    /\ UNCHANGED <<queue, cmds, replies, locks, P2P_TX, RUNTIME>>
    /\ FacadeFrame

\* search_p2p_network(_, search_request)
SearchP2pNetwork(t) ==
    /\ CanCallFacade(t)
    /\ Goto(t, "search_p2p_network: P2P_TX.lock()")
    /\ call' = [call EXCEPT ![t] = Some([query |-> <<"1">>, reply |-> 0, pairs |-> <<>>])]
    /\ UNCHANGED <<queue, cmds, replies, ret, locks, P2P_TX, RUNTIME>>
    /\ FacadeFrame

SearchCloned(t) ==
    /\ at[t] = "search_p2p_network: cloned()"
    /\ locks' = Release(locks, "P2P_TX")
    /\ IF IsSome(P2P_TX)
       THEN Goto(t, "search_p2p_network: send(Search)") /\ UNCHANGED <<ret, call>>
       ELSE Done(t, "search_p2p_network", <<>>)
    /\ UNCHANGED <<queue, cmds, replies, P2P_TX, RUNTIME>>
    /\ FacadeFrame

SearchSend(t) ==
    /\ at[t] = "search_p2p_network: send(Search)"
    /\ SendForReply(t, [kind |-> "Search", query |-> Unwrap(call[t]).query],
                    "search_p2p_network: reply_rx")

\* reply_rx.await: with the pairs the command goes on to take RUNTIME, with
\* the error of a dropped sender it returns nothing
SearchReply(t) ==
    /\ at[t] = "search_p2p_network: reply_rx"
    /\ LET c == Unwrap(call[t]).reply
       IN  IF replies[c] /= <<>>
           THEN /\ Goto(t, "search_p2p_network: RUNTIME.lock()")
                /\ call' = [call EXCEPT ![t] = Some([Unwrap(@) EXCEPT !.pairs = replies[c][1]])]
                /\ UNCHANGED ret
           ELSE c \in dropped /\ Done(t, "search_p2p_network", <<>>)
    /\ UNCHANGED <<queue, cmds, replies, locks, P2P_TX, RUNTIME>>
    /\ FacadeFrame

\* the description of a result: the author the facade recorded for the id
Description(rt, id) ==
    IF IsSome(rt) /\ id \in DOMAIN Unwrap(rt).metadata_index
          /\ IsSome(Unwrap(rt).metadata_index[id].author)
    THEN <<"author: ">> \o Unwrap(Unwrap(rt).metadata_index[id].author) \o <<" ">>
    ELSE <<"P2P network item">>

\* under the RUNTIME guard: the pairs become SearchResults
SearchCollect(t) ==
    /\ at[t] = "search_p2p_network: collect"
    /\ LET pairs == Unwrap(call[t]).pairs
       IN  Done(t, "search_p2p_network",
                [i \in 1..Len(pairs) |->
                   [id |-> pairs[i][1], title |-> pairs[i][2],
                    description |-> Description(RUNTIME, pairs[i][1])]])
    /\ locks' = Release(locks, "RUNTIME")
    /\ UNCHANGED <<queue, cmds, replies, P2P_TX, RUNTIME>>
    /\ FacadeFrame

\* stop_p2p_node(_node_id): { true }
StopP2pNode(t) ==
    /\ CanCallFacade(t)
    /\ Return(t, "stop_p2p_node", TRUE)
    /\ UNCHANGED <<queue, cmds, replies, at, call, locks, P2P_TX, RUNTIME>>
    /\ FacadeFrame

\* init_p2p_node(config)
InitP2pNode(t) ==
    /\ CanCallFacade(t)
    /\ Goto(t, "init_p2p_node: RUNTIME.lock()")
    /\ call' = [call EXCEPT ![t] = Some([node_id |-> <<"node-", "u">>])]
    /\ UNCHANGED <<queue, cmds, replies, ret, locks, P2P_TX, RUNTIME>>
    /\ FacadeFrame

\* under the RUNTIME guard: a Runtime that is not online replaces the cell
InitStore(t) ==
    /\ at[t] = "init_p2p_node: store"
    /\ RUNTIME' = Some([node_id |-> Unwrap(call[t]).node_id, socks_proxy |-> None,
                        online |-> FALSE, content_index |-> EmptyMap,
                        metadata_index |-> EmptyMap])
    /\ locks' = Release(locks, "RUNTIME")
    /\ Done(t, "init_p2p_node", Unwrap(call[t]).node_id)
    /\ UNCHANGED <<queue, cmds, replies, P2P_TX>>
    /\ FacadeFrame

\* the facade with the event loop it feeds: the commands of two threads, the
\* loop's handling of what they send, and the ticker that ends a search
NextFacade ==
    \/ \E t \in Threads : Lock(t)
    \/ \E t \in Threads : PublishContent(t)
    \/ \E t \in Threads : PublishInsert(t)
    \/ \E t \in Threads : PublishCloned(t)
    \/ \E t \in Threads : PublishSendUpdateIndex(t)
    \/ \E t \in Threads : PublishSendPublishHash(t)
    \/ \E t \in Threads : FetchContent(t)
    \/ \E t \in Threads : FetchCloned(t)
    \/ \E t \in Threads : FetchSend(t)
    \/ \E t \in Threads : FetchReply(t)
    \/ \E t \in Threads : SearchP2pNetwork(t)
    \/ \E t \in Threads : SearchCloned(t)
    \/ \E t \in Threads : SearchSend(t)
    \/ \E t \in Threads : SearchReply(t)
    \/ \E t \in Threads : SearchCollect(t)
    \/ \E t \in Threads : StopP2pNode(t)
    \/ \E t \in Threads : InitP2pNode(t)
    \/ \E t \in Threads : InitStore(t)
    \/ CmdUpdateIndex
    \/ CmdPublishHash
    \/ CmdFetch
    \/ CmdSearch
    \/ Tick

\* the process before any start, or with an event loop running
InitFacade == Init \/ InitHost

SpecFacade == InitFacade /\ [][NextFacade]_vars

(***************************************************************************)
(* The event loop: every command, every swarm event and both tickers.      *)
(* Commands and events arrive on the ticks of `ticker`.                    *)
(***************************************************************************)
Next ==
    \/ SendPlain(PlainCommands)
    \/ SendWithReply(ReplyCommands, MaxReplyCmds)
    \/ CmdAddBootstrap
    \/ CmdPublishHash
    \/ CmdUpdateIndex
    \/ CmdGetMetrics
    \/ CmdFetch
    \/ CmdSearch
    \/ CmdPutRecord
    \/ CmdGetRecord
    \/ CmdBootstrap
    \/ CmdGetMyOnionAddress
    \/ CmdGetNetworkPeers
    \/ CmdAddPeerAddress
    \/ CmdForceCreateOnionService
    \/ ConnectionEstablishedTo({"p1"})
    \/ ConnectionClosed
    \/ RrResponse
    \/ RrOutboundFailure
    \/ GossipMessage
    \/ KadQueryProgressed
    \/ KadOther
    \/ Tick
    \/ AnnounceTick

Spec == Init /\ [][Next]_vars

(***************************************************************************)
(* The loop with callers that only fetch: Fetch commands, connection       *)
(* events and chunk responses, over both contents and both output paths    *)
(***************************************************************************)
NextFetch ==
    \/ SendWithReply(FetchCommands, MaxFetches)
    \/ CmdFetch
    \/ ConnectionEstablished
    \/ ConnectionClosed
    \/ RrResponse
    \/ RrOutboundFailure

SpecFetch == Init /\ [][NextFetch]_vars

(***************************************************************************)
(* The loop with callers that only publish and search: UpdateIndex and     *)
(* Search commands, gossip and the ticker, over every index input and      *)
(* query, with commands and events arriving between ticks too              *)
(***************************************************************************)
NextSearch ==
    \/ SendPlain(UpdateIndexCommands)
    \/ SendWithReply(SearchCommands, MaxSearches)
    \/ CmdUpdateIndex
    \/ CmdSearch
    \/ GossipMessage
    \/ Tick
    \/ TimePasses

SpecSearch == Init /\ [][NextSearch]_vars

\* the same callers and peers, with the R| messages that answer no search
\* in flight counted
NextStale ==
    \/ SendPlain(UpdateIndexCommands)
    \/ SendWithReply(SearchCommands, MaxSearches)
    \/ CmdUpdateIndex
    \/ CmdSearch
    \/ GossipMessage
    \/ Tick

SpecStale == InitStale /\ [][NextStale]_vars

(***************************************************************************)
(* The loop with callers that only write and read DHT records: UpdateIndex,*)
(* PutRecord, GetRecord and AddPeerAddress commands, query results and the *)
(* announce ticker, over two keys                                          *)
(***************************************************************************)
NextKad ==
    \/ SendPlain({u \in UpdateIndexCommands : u.hash = H1})
    \/ SendWithReply(RecordCommands, MaxRecordCmds)
    \/ CmdUpdateIndex
    \/ CmdPutRecord
    \/ CmdGetRecord
    \/ CmdAddPeerAddress
    \/ KadQueryProgressed
    \/ AnnounceTick

SpecKad == Init /\ [][NextKad]_vars

(***************************************************************************)
(* The loop as remote peers see it: callers publish, peers connect over    *)
(* one or several connections and send chunk requests                      *)
(***************************************************************************)
NextPeer ==
    \/ SendPlain(UpdateIndexCommands)
    \/ CmdUpdateIndex
    \/ Established(Peers, MaxConns)
    \/ ConnectionClosed
    \/ RrRequest

SpecPeer == Init /\ [][NextPeer]_vars

(***************************************************************************)
(* The loop with callers that fetch and search and may drop the receiving  *)
(* end of the reply channel at any time before the reply                   *)
(***************************************************************************)
\* the caller drops reply_rx of a Fetch or a Search that has no reply yet
DropReceiver ==
    /\ \E c \in (1..Len(cmds)) \ closed_rx :
         /\ cmds[c].kind \in {"Fetch", "Search"}
         /\ replies[c] = <<>>
         /\ closed_rx' = closed_rx \cup {c}
    /\ outbox' = {}
    /\ UNCHANGED <<queue, cmds, chanVars, indexVars, connected, searchVars, fetchVars,
                   kadVars, phase, dialed, conns, served, mgr_hist, torVars, facadeVars>>

AbandonCommands ==
    {[kind |-> "Fetch", hash |-> H2, out_path |-> OutA],
     [kind |-> "Search", query |-> <<"a">>]}

NextAbandon ==
    \/ SendWithReply(AbandonCommands, MaxAbandonCmds)
    \/ DropReceiver
    \/ CmdFetch
    \/ CmdSearch
    \/ ConnectionEstablishedTo({"p1"})
    \/ RrResponse
    \/ Tick

SpecAbandon == Init /\ [][NextAbandon]_vars

(***************************************************************************)
(* The loop with callers that only fetch, and peers that stay connected    *)
(* and answer every chunk request: no connection closes and no request     *)
(* fails.  tokio::select! polls the command channel and the swarm in a     *)
(* loop, so a command that waits in the channel is received and a response *)
(* that arrived is handled.                                                *)
(***************************************************************************)
NextFetchLive ==
    \/ SendWithReply(FetchCommands, MaxFetches)
    \/ CmdFetch
    \/ ConnectionEstablished
    \/ RrResponse

\* a response can be handled exactly when a request is outstanding
RrResponseEnabled == LoopRuns /\ rr_pending /= {}

\* weak fairness of RrResponse, with its enabling condition written out
RrResponseFair == []<>(~RrResponseEnabled) \/ []<><<RrResponse>>_rr_pending

SpecFetchLive ==
    Init /\ [][NextFetchLive]_vars /\ WF_queue(CmdFetch) /\ RrResponseFair

(***************************************************************************)
(* Properties                                                              *)
(***************************************************************************)
Range(seq) == {seq[i] : i \in 1..Len(seq)}

RECURSIVE SumSeq(_)
SumSeq(seq) == IF seq = <<>> THEN 0 ELSE Head(seq) + SumSeq(Tail(seq))

\* the reply channels of the commands of one kind
ChannelsOf(kind) == {c \in 1..Len(cmds) : cmds[c].kind = kind}

\* exactly one value was sent on channel c, and it is an error
ErrorReply(reps, c) == Len(reps[c]) = 1 /\ ~reps[c][1].ok

\* C1: every command that carries a reply channel gets exactly one reply:
\* its channel is never dropped without a send, never carries more than one
\* value, and carries none while the command is still in the queue.
C1_ExactlyOneReply ==
    \A c \in 1..Len(cmds) :
        /\ c \notin dropped
        /\ Len(replies[c]) <= 1
        /\ (\E i \in 1..Len(queue) : queue[i] = cmds[c]) => replies[c] = <<>>

\* C2: a Fetch dequeued while the pending-fetch slot is occupied and a peer
\* is connected is answered with an error, and the slot keeps the fetch it
\* held, unchanged.
C2_SecondFetchRejected ==
    [][(Recv("Fetch") /\ IsSome(current_fetch) /\ connected /= {})
         => /\ current_fetch' = current_fetch
            /\ ErrorReply(replies', Head(queue).reply)]_vars

\* C3: when a Fetch for hash H is answered Ok(P), file P holds exactly the
\* complete bytes of the content that H identifies.
C3_OkMeansCompleteContent ==
    [][\A c \in ChannelsOf("Fetch") :
         (replies[c] = <<>> /\ replies'[c] /= <<>> /\ replies'[c][1].ok)
           => Normalize(files'[replies'[c][1].val]) = ContentBytes(cmds[c].hash)]_vars

\* the chunk request the pending fetch is waiting on
RequestOf(pf) == Request(pf.peer, pf.hash, pf.offset, pf.reply)

\* C4: when the peer serving the pending fetch disconnects, or the
\* outstanding chunk request fails, the fetch's reply channel receives an
\* error and the slot becomes empty.
C4_DisconnectFailsFetch ==
    [][IsSome(current_fetch) =>
         LET pf == Unwrap(current_fetch)
             closed == pf.peer \in connected /\ pf.peer \notin connected'
             failed == /\ RequestOf(pf) \in rr_pending
                       /\ RequestOf(pf) \notin rr_pending'
                       /\ fetch_hist' = fetch_hist
         IN  (closed \/ failed)
               => current_fetch' = None /\ ErrorReply(replies', pf.reply)]_vars

\* C5: a Fetch dequeued while no peer is connected, and whose output file
\* can be opened, is answered Err("no peers connected"), sends no chunk
\* request and leaves the pending-fetch slot as it was.
C5_NoPeersConnected ==
    [][(Recv("Fetch") /\ connected = {} /\ CanCreate(Head(queue).out_path))
         => /\ replies'[Head(queue).reply] = <<ErrVal("no peers connected")>>
            /\ rr_pending' = rr_pending
            /\ current_fetch' = current_fetch]_vars

\* a Fetch was answered "no peers connected" while an earlier fetch, still
\* pending, occupied the slot
C5_Witness ==
    /\ IsSome(current_fetch)
    /\ \E c \in ChannelsOf("Fetch") :
         /\ c > Unwrap(current_fetch).reply
         /\ replies[c] = <<ErrVal("no peers connected")>>

C7_SearchKeepsItsReply == \A c \in ChannelsOf("Search") : c \notin dropped

\* C8: every (hash, name) of a search response received while the search
\* with its id was in flight, and every local match the search started
\* with, is in the list sent on the search's reply channel.
C8_ResponsesInReply ==
    (search_hist.chan > 0 /\ replies[search_hist.chan] /= <<>>)
      => LET list == replies[search_hist.chan][1]
         IN  /\ Range(search_hist.local) \subseteq Range(list)
             /\ Range(search_hist.received) \subseteq Range(list)

\* a search that started with a local match and received two responses
\* was answered
C8_Witness ==
    /\ search_hist.chan > 0
    /\ replies[search_hist.chan] /= <<>>
    /\ search_hist.local /= <<>>
    /\ Len(search_hist.received) = 2

\* C9: a search in the slot stays there, unanswered, until the first tick
\* at which its window of 200 ms is over; that tick sends the accumulated
\* list on its reply channel and empties the slot.
C9_AnsweredAtWindowClose ==
    [][IsSome(current_search) =>
         LET cs == Unwrap(current_search)
         IN  \/ /\ IsSome(current_search')
                /\ Unwrap(current_search').id = cs.id
                /\ Unwrap(current_search').reply = cs.reply
                /\ replies'[cs.reply] = <<>>
                /\ phase' = 0 => Unwrap(current_search').elapsed < SEARCH_WINDOW_MS
             \/ /\ current_search' = None
                /\ phase' = 0
                /\ cs.elapsed + (TICK_MS - phase) >= SEARCH_WINDOW_MS
                /\ replies'[cs.reply] = <<cs.results>>]_vars

\* C10: after UpdateIndex(h, path, title, author, tags), a Search whose
\* query is, ignoring case, a substring of the title (of the file name of
\* path when the title is empty), of the author or of a tag, has h in its
\* results.
C10_PublishedIsFound ==
    [][Recv("Search") =>
         \A h \in DOMAIN published :
           LocalMatch(Head(queue).query, published[h])
             => \E i \in 1..Len(Unwrap(current_search').results) :
                  Unwrap(current_search').results[i][1] = h]_vars

\* C11: the list sent on a Search's reply channel holds at most one entry
\* for each content hash, whether the hash was matched locally, reported by
\* a remote response, or both.
C11_OneEntryPerHash ==
    \A c \in ChannelsOf("Search") :
        replies[c] /= <<>> =>
          LET list == replies[c][1]
          IN  \A i, j \in 1..Len(list) : list[i][1] = list[j][1] => i = j

\* C12: a GetRecord(k) dequeued after a PutRecord(k, v) was answered Ok is
\* answered Ok(v): the bytes returned are the value that was put.
C12_GetReturnsWhatWasPut ==
    [][\A c \in DOMAIN get_after_put :
         (replies[c] = <<>> /\ replies'[c] /= <<>> /\ get_after_put[c] /= {})
           => /\ replies'[c][1].ok
              /\ replies'[c][1].val \in get_after_put[c]]_vars

\* C13: every record in the node's store, whichever handler wrote it, names
\* the local peer as publisher and expires 24 hours after it was written.
C13_PublisherAndExpiry ==
    \A k \in DOMAIN kad_store :
        /\ kad_store[k].publisher = Some(local_peer_id)
        /\ kad_store[k].expires = Some(24 * 60 * 60)

\* UpdateIndex, PutRecord, AddPeerAddress and the announce tick each wrote
\* a record
C13_Witness ==
    /\ ContentKey(H1) \in DOMAIN kad_store
    /\ <<"k">> \in DOMAIN kad_store
    /\ ManualKey(OnionMa) \in DOMAIN kad_store
    /\ PresenceKey \in DOMAIN kad_store

\* C14: the index entry of a locally published hash is what the last
\* UpdateIndex for it gave: no inbound gossip replaces or alters its path,
\* title, author or tags.
C14_LocalEntryKept ==
    \A h \in DOMAIN published :
        /\ h \in DOMAIN content_index
        /\ content_index[h] = IndexedContent(published[h].path, published[h].title,
                                             published[h].author, published[h].tags)

\* C15: the connected-peer set changes only in a step that handles a
\* ConnectionEstablished or a ConnectionClosed event.
C15_ConnectedFrame ==
    [][connected' /= connected => (ConnectionEstablished \/ ConnectionClosed)]_vars

\* a peer is connected, and two commands and an UpdateIndex were handled
\* and the commands answered
C15_Witness ==
    /\ connected = {"p1"}
    /\ queue = <<>>
    /\ Len(cmds) = 2
    /\ \A c \in 1..Len(cmds) : replies[c] /= <<>>
    /\ content_index /= EmptyMap

\* C16: handling PublishHash leaves the content index, the fetch slot, the
\* search slot and the pending DHT queries as they were, so that handling it
\* any number of times leaves them as handling it once does
C16_PublishHashFrame ==
    [][Recv("PublishHash") =>
         UNCHANGED <<content_index, current_fetch, current_search,
                     pending_put_records, pending_get_records, pending_bootstrap>>]_vars

\* H1 was just published on the content topic, over an index that is not
\* empty and with a search in its slot
C16_Witness ==
    /\ outbox = Publish(topic, H1)
    /\ content_index /= EmptyMap
    /\ current_search /= None

\* C18: every dial the runtime makes, from any of its dial statements and
\* for every address form, is routed to the SOCKS transport and never to
\* the TCP transport
C18_DialsThroughSocks == \A d \in dialed : d.route.via /= "tcp"

C19_FailedStartSetsNothing ==
    [][\A t \in Threads :
         (/\ ret'[t] /= ret[t]
          /\ Unwrap(ret'[t]).op = "start_libp2p_with_socks"
          /\ ~Unwrap(ret'[t]).val)
           => /\ tasks' = tasks
              /\ P2P_TX' = P2P_TX
              /\ P2P_TX' = None]_vars

\* with a daemon of the manager running, a start through the facade returned
\* false, and no event loop runs and the command-sender cell is empty
C19_Witness ==
    /\ IsSome(TOR_RUNTIME)
    /\ Unwrap(TOR_RUNTIME).control_port /= "0"
    /\ IsSome(ret["t1"])
    /\ Unwrap(ret["t1"]).op = "start_libp2p_with_socks"
    /\ ~Unwrap(ret["t1"]).val
    /\ P2P_TX = None
    /\ tasks = {}

\* C20: a start of the manager that finds it started returns: the thread is
\* never inside the status() that start calls while it holds the lock
C20_StartReturns == \A t \in Threads : at[t] /= "start: status()"

\* C21: with the manager started and the daemon accepting AUTHENTICATE and
\* answering ADD_ONION with a ServiceID line, create_hidden_service returns
\* the onion host and list_hidden() then contains it: no caller stays
\* inside the lock() that precedes the push of the host
C21_CreateReturnsHost ==
    \A t \in DOMAIN at : at[t] /= "create_hidden_service: lock()"

\* the manager is Ready: it is started and its daemon's bootstrap progress
\* is 100
Ready == IsSome(TOR_RUNTIME) /\ progress = 100

\* C22: hidden-service creation and circuit rotation succeed only when the
\* manager is Ready: in every other state rotate_circuit returns false, and
\* create_hidden_service returns an error (it neither returns Ok nor gets
\* as far as the lock() that precedes the push of a created host)
C22_ReadyRequired ==
    [][\A t \in Threads :
         /\ (/\ ret'[t] /= ret[t]
             /\ Unwrap(ret'[t]).op = "rotate_circuit"
             /\ Unwrap(ret'[t]).val) => Ready
         /\ (/\ ret'[t] /= ret[t]
             /\ Unwrap(ret'[t]).op = "create_hidden_service"
             /\ Unwrap(ret'[t]).val.ok) => Ready
         /\ (/\ at'[t] /= at[t]
             /\ at'[t] = "create_hidden_service: lock()") => Ready]_vars

\* C23: a start whose daemon cannot be spawned, or whose auth cookie has not
\* appeared at the deadline, returns a Status with bootstrapped = false (not
\* an error), and leaves the manager not started, so that a later start
\* makes a new attempt
C23_FailedStartCanBeRetried ==
    [][\A t \in Threads :
         (ret'[t] /= ret[t] /\ Unwrap(ret'[t]).op = "start")
           => IF Unwrap(ret'[t]).val.ok
              THEN Unwrap(ret'[t]).val.val.bootstrapped \/ TOR_RUNTIME' = None
              ELSE Unwrap(ret'[t]).val /= ErrVal("failed to spawn tor")]_vars

\* C27: a dial of an address without a host component or without a tcp port
\* component is refused at once with an invalid-argument error and no
\* future that would connect to the SOCKS egress; a dial whose connection
\* to the egress, or whose SOCKS CONNECT, fails ends in an I/O error whose
\* message contains the message of the error underneath
C27_SocksDialErrors ==
    \A d \in dialed :
       /\ ((\A i \in 1..Len(d.addr) : d.addr[i].proto \notin HostProtocols)
            \/ (\A i \in 1..Len(d.addr) : d.addr[i].proto /= "tcp"))
             => /\ d.route.via = "none"
                /\ d.route.kind = "InvalidInput"
                /\ d.outcome = None
       /\ (d.outcome /= None /\ Unwrap(d.outcome).egress.step /= "ok")
             => /\ ~Unwrap(d.outcome).result.ok
                /\ Unwrap(d.outcome).result.kind = "Other"
                /\ contains(Unwrap(d.outcome).result.message,
                            <<Unwrap(d.outcome).egress.error>>)

\* an address without a host and one without a port were dialled, and the
\* dial of a third address failed at the SOCKS CONNECT
C27_Witness ==
    /\ \E d \in dialed : d.route.via = "none" /\ d.route.error = "missing host in multiaddr"
    /\ \E d \in dialed : d.route.via = "none" /\ d.route.error = "missing tcp port in multiaddr"
    /\ \E d \in dialed :
          /\ d.outcome /= None
          /\ Unwrap(d.outcome).egress.step = "connect"
          /\ ~Unwrap(d.outcome).result.ok

\* the response the specification gives a chunk request: the bytes of the
\* indexed file from the offset to min(offset + 65536, length) when the
\* request parses, the hash is indexed, the file opens and the seek
\* succeeds, and nothing otherwise
ExpectedResponse(index, fs, request) ==
    LET parsed == parse_chunk_request(request)
    IN  IF parsed = None THEN <<>>
        ELSE LET hash == Unwrap(parsed)[1]
                 offset == Unwrap(parsed)[2]
             IN  IF hash \notin DOMAIN index THEN <<>>
                 ELSE IF index[hash].path \notin DOMAIN fs THEN <<>>
                 ELSE IF offset[8] >= 128 THEN <<>>
                 ELSE LET f == fs[index[hash].path]
                          from == FromLE(offset)
                          to == Min(from + CHUNK_SIZE, FileLen(f))
                      IN  IF from >= FileLen(f) THEN <<>>
                          ELSE ReadAt(f, from, to - from)

\* C29: every inbound chunk request receives exactly one response: the
\* file's bytes from the offset up to min(offset + 65536, file length) when
\* the hash is indexed and its file opens, and an empty response when the
\* hash is unknown, the payload does not parse, or the open or the seek
\* fails
C29_ServeFetchResponse ==
    [][served' /= served
         => Unwrap(served').responses
              = <<ExpectedResponse(content_index, files @@ SourceFiles,
                                   Unwrap(served').request)>>]_vars

\* C30: the connected-peer set is the set of peers with at least one
\* connection established and not closed
C30_ConnectedIsLive == connected = {p \in Peers : conns[p] > 0}

\* C24: the event loop processes commands in the order in which they were
\* enqueued: a send puts its command behind those waiting, the loop takes
\* the command at the front and handles it in the same step, and so the
\* UpdateIndex of publish_content has been processed when the PublishHash
\* that follows it is published
C24_FifoOrder ==
    [][/\ Len(queue') > Len(queue)
            => Len(queue') = Len(queue) + 1 /\ SubSeq(queue', 1, Len(queue)) = queue
       /\ Len(queue') < Len(queue) => queue' = Tail(queue)
       /\ Len(queue') = Len(queue) => queue' = queue
       /\ \A h \in Hashes :
            outbox' = Publish(topic, h) => h \in DOMAIN content_index']_vars

\* the UpdateIndex of one publish_content was processed, its PublishHash is
\* at the front of the queue, and a command sent later waits behind it
C24_Witness ==
    /\ Len(queue) = 2
    /\ queue[1].kind = "PublishHash"
    /\ queue[2].kind /= "PublishHash"
    /\ queue[1].hash \in DOMAIN content_index

\* C25: the command-sender cell is empty again after stop_p2p_node
C25_StopEmptiesSender ==
    [][\A t \in Threads :
         (ret'[t] /= ret[t] /\ Unwrap(ret'[t]).op = "stop_p2p_node") => P2P_TX' = None]_vars

\* C26: a facade command that awaits a send on the command queue or a reply
\* from the event loop holds neither the P2P_TX lock nor the RUNTIME lock
C26_NoLockAcrossAwait ==
    \A t \in Threads : at[t] \in AwaitSites => \A l \in Locks : locks[l] /= Some(t)

\* one caller waits for the reply to its Fetch while the other holds the
\* guard of P2P_TX that it took in the meantime
C26_Witness ==
    /\ at["t1"] = "fetch_content: reply_rx"
    /\ locks["P2P_TX"] = Some("t2")

\* the positions inside publish_content and fetch_content
PublishFetchSites ==
    {"publish_content: RUNTIME.lock()", "publish_content: insert",
     "publish_content: P2P_TX.lock()", "publish_content: cloned()",
     "fetch_content: P2P_TX.lock()", "fetch_content: cloned()"}

\* C28: with the command-sender cell empty, publish_content and
\* fetch_content enqueue no command, leave the facade's Runtime (its content
\* and metadata indexes) unchanged and return "p2p runtime not started"
C28_NotStartedChangesNothing ==
    [][\A t \in Threads :
         (P2P_TX = None /\ at[t] \in PublishFetchSites /\ at'[t] /= at[t])
           => /\ RUNTIME' = RUNTIME
              /\ queue' = queue
              /\ ret'[t] /= ret[t]
                   => Unwrap(ret'[t]).val = ErrVal("p2p runtime not started")]_vars

\* C31: a chunk response advances the pending fetch (its offset, and with
\* it its output file) only if it answers a request that this fetch's own
\* handlers sent, to the peer the fetch is bound to.
C31_ResponseAnswersOwnRequest ==
    [][(/\ IsSome(current_fetch)
        /\ IsSome(current_fetch')
        /\ Unwrap(current_fetch').reply = Unwrap(current_fetch).reply
        /\ Unwrap(current_fetch').offset /= Unwrap(current_fetch).offset)
       => \E r \in rr_pending \ rr_pending' :
             /\ r.by = Unwrap(current_fetch).reply
             /\ r.peer = Unwrap(current_fetch).peer]_vars

\* the fetch whose command carries reply channel c is in the slot
InSlot(c) == IF IsSome(current_fetch) THEN Unwrap(current_fetch).reply = c ELSE FALSE

\* C32: a Fetch that entered the slot, with peers that stay connected and
\* answer every chunk request, eventually replies Ok with its output path
\* and is no longer in the slot.
C32_FetchCompletes ==
    \A c \in 1..MaxFetches :
        InSlot(c) ~> (IF InSlot(c) \/ c > Len(cmds)
                      THEN FALSE
                      ELSE replies[c] = <<OkVal(cmds[c].out_path)>>)

\* a send on channel c happens in this step and fails: c has no receiver
FailedSend(c) == c \in closed_rx /\ replies'[c] /= replies[c]

\* C33: when the loop's send on the reply channel of the Fetch or Search
\* in a slot fails because the caller dropped the receiver, that slot is
\* empty afterwards and the event loop still runs.
C33_FailedSendFreesSlot ==
    [][\A c \in 1..Len(cmds) :
         FailedSend(c)
           => /\ SenderOf(current_fetch) = {c} => current_fetch' = None
              /\ SenderOf(current_search) = {c} => current_search' = None
              /\ tasks' /= {}
              /\ at'[LoopThread] = "idle"]_vars

\* a Fetch and a Search were answered into dropped receivers, and a Fetch
\* and a Search sent after them got their replies
C33_Witness ==
    /\ Len(cmds) = 4
    /\ closed_rx = {1, 2}
    /\ cmds[1].kind = "Fetch" /\ cmds[2].kind = "Search"
    /\ cmds[3].kind = "Fetch" /\ cmds[4].kind = "Search"
    /\ replies[1] = <<OkVal(OutA)>>
    /\ Len(replies[2]) = 1
    /\ replies[3] = <<OkVal(OutA)>>
    /\ Len(replies[4]) = 1
    /\ current_fetch = None
    /\ current_search = None

\* the per-hash counter `downloaded`, as GetMetrics reads it
Downloaded(h) ==
    IF h \in DOMAIN transfer_stats THEN transfer_stats[h].downloaded
    ELSE DefaultStats.downloaded

\* C34: while a fetch of hash H is the last that entered the slot and has
\* received non-empty chunks totalling n bytes, the counter downloaded of H
\* is n, and so is the value in every tuple for H of a metrics snapshot.
C34_DownloadedCounts ==
    fetch_hist.chan /= 0
      => LET h == cmds[fetch_hist.chan].hash
             n == SumSeq(fetch_hist.got)
         IN  /\ Downloaded(h) = n
             /\ \A m \in Metrics(content_index) : m[1] = h => m[2] = n

\* thread t returns from a call of op in this step
ReturnsFrom(t, op) == ret'[t] /= ret[t] /\ Unwrap(ret'[t]).op = op

\* start used the external SOCKS address socks: it returned a status with
\* that address and supports_control = false, recorded no child and
\* spawned no daemon
UsedExternal(t, socks) ==
    /\ Unwrap(ret'[t]).val.ok
    /\ Unwrap(ret'[t]).val.val.socks = Some(socks)
    /\ ~Unwrap(ret'[t]).val.val.supports_control
    /\ IsSome(TOR_RUNTIME')
    /\ Unwrap(TOR_RUNTIME').child = None
    /\ daemons' = daemons
    /\ ~Unwrap(mgr_hist').spawned

\* the order of the strategies, for the start whose history is h
StrategyOrder(t, h) ==
    IF IsSome(h.socks_override)
    THEN ~h.probed /\ UsedExternal(t, Unwrap(h.socks_override))
    ELSE IF h.port_9150
    THEN UsedExternal(t, Loopback("9150"))
    ELSE h.spawned => Unwrap(TOR_RUNTIME').child /= None

Managed == IF IsSome(TOR_RUNTIME) THEN Unwrap(TOR_RUNTIME).control_port /= "0" ELSE FALSE

\* in the call whose history is h, an exchange with the control port failed
\* or was answered with an error
ControlError(h) ==
    IF h.op = "status"
    THEN IF h.probe = None THEN TRUE ELSE Unwrap(h.probe).use_bridges = None
    ELSE IF h.op = "rotate_circuit" THEN h.ctl /= "250 OK"
    ELSE IF h.op = "create_hidden_service" THEN h.ctl /= "ServiceID"
    ELSE IF h.op = "enable_bridges"
    THEN \/ h.ctl.auth /= "250 OK"
         \/ h.ctl.resetconf /= "250 OK"
         \/ h.ctl.use_bridges /= "250 OK"
         \/ (h.bridges /= <<>> /\ h.ctl.bridge /= "250 OK")
    ELSE FALSE

\* the value the call returned tells the caller of a failure
ReportsFailure(op, val) ==
    IF op = "status" THEN ~val.bootstrapped
    ELSE IF op = "create_hidden_service" THEN ~val.ok
    ELSE val = FALSE

\* C36: a call of status, enable_bridges, rotate_circuit or
\* create_hidden_service on a managed daemon in which the control channel
\* gave an error returns an error, false, or a status with bootstrapped =
\* false, and leaves the stored runtime and the daemon as they were.
C36_ControlErrorReported ==
    [][\A t \in Threads :
         (/\ Managed
          /\ ret'[t] /= ret[t]
          /\ ControlError(Unwrap(mgr_hist')))
           => /\ ReportsFailure(Unwrap(ret'[t]).op, Unwrap(ret'[t]).val)
              /\ TOR_RUNTIME' = TOR_RUNTIME
              /\ daemons' = daemons]_vars

\* the loop receives an UpdateIndex command in this step
HandlesUpdateIndex ==
    IF queue /= <<>> THEN Head(queue).kind = "UpdateIndex" /\ queue' = Tail(queue) ELSE FALSE

\* C37: the line that the handler of UpdateIndex broadcasts, given to the
\* handler of CONTENT announcements of a node with an empty index, yields an
\* entry under the same hash with the same title, author and tag list.
C37_ContentLineRoundTrips ==
    [][HandlesUpdateIndex
         => /\ outbox' /= {}
            /\ \A m \in outbox' :
                 LET cmd == Head(queue)
                     received == GossipIndex(EmptyMap, m.data)
                 IN  /\ DOMAIN received = {cmd.hash}
                     /\ received[cmd.hash].title = cmd.title
                     /\ received[cmd.hash].author = cmd.author
                     /\ received[cmd.hash].tags = cmd.tags]_vars

\* the loop receives, in this step, an R| response that carries another id
\* than the search in flight, or comes while no search is in flight
StaleResponse == search_hist'.stale /= search_hist.stale

\* C38: such a response changes nothing: the search slot and its result
\* list, the index, the replies sent, the queue and the other slots are as
\* before, and nothing is published.  Every result list is then the local
\* matches followed by the responses that carried the search's id in flight.
C38_StaleResponseIgnored ==
    [][/\ StaleResponse
         => /\ current_search' = current_search
            /\ content_index' = content_index
            /\ replies' = replies
            /\ dropped' = dropped
            /\ queue' = queue
            /\ current_fetch' = current_fetch
            /\ kad_store' = kad_store
            /\ connected' = connected
            /\ dialed' = dialed
            /\ outbox' = {}
       /\ IsSome(current_search')
         => Unwrap(current_search').results
              = search_hist'.local \o search_hist'.received]_vars

\* a response with another id was received while a search was in flight,
\* and that search was answered
C38_Witness ==
    /\ search_hist.stale = Some(1)
    /\ search_hist.chan = 1
    /\ replies[1] /= <<>>
    /\ search_hist.received /= <<>>

\* the probe recorded in history h reported a progress of at least n
ProbedAtLeast(h, n) == IF h.probe = None THEN FALSE ELSE Unwrap(h.probe).progress >= n

\* what C39 says of a Status value s returned in this step by the call whose
\* history is h
StatusConsistent(s, h) ==
    /\ s.circuit_established => s.bootstrapped
    /\ (s.socks = None) <=> (TOR_RUNTIME' = None)
    /\ s.supports_control
         => /\ s.bootstrapped <=> ProbedAtLeast(h, 5)
            /\ s.circuit_established <=> ProbedAtLeast(h, 100)

NotStarted(t) ==
    /\ ReturnsFrom(t, "status")
         => ~Unwrap(ret'[t]).val.bootstrapped /\ Unwrap(ret'[t]).val.socks = None
    /\ ReturnsFrom(t, "list_hidden") => Unwrap(ret'[t]).val = <<>>
    /\ ReturnsFrom(t, "create_hidden_service") => ~Unwrap(ret'[t]).val.ok
    /\ ReturnsFrom(t, "stop") => Unwrap(ret'[t]).val = FALSE
    /\ ReturnsFrom(t, "start")
         => IF Unwrap(ret'[t]).val.ok
            THEN /\ IsSome(TOR_RUNTIME')
                 /\ Unwrap(TOR_RUNTIME').hidden_services = <<>>
                 /\ IsSome(Unwrap(ret'[t]).val.val.socks)
                 /\ Unwrap(mgr_hist').spawned => daemons' = daemons + 1
            ELSE TOR_RUNTIME' = None

\* C40: a stop that returns gives true exactly when the cell held a runtime,
\* and leaves the cell empty; every call that then finds the cell empty is
\* answered as by a manager that was never started.
C40_StopResets ==
    [][\A t \in Threads :
         /\ ReturnsFrom(t, "stop")
              => /\ Unwrap(ret'[t]).val = IsSome(TOR_RUNTIME)
                 /\ TOR_RUNTIME' = None
         /\ TOR_RUNTIME = None => NotStarted(t)]_vars

\* after a stop that found the manager started, a start spawned a daemon
\* and returned its status
C40_Witness ==
    /\ IsSome(mgr_hist)
    /\ Unwrap(mgr_hist).stopped
    /\ Unwrap(mgr_hist).op = "start"
    /\ Unwrap(mgr_hist).spawned
    /\ IsSome(TOR_RUNTIME)
    /\ IsSome(ret[Caller])
    /\ Unwrap(ret[Caller]).op = "start"
    /\ Unwrap(ret[Caller]).val.ok

====
